---- MODULE Spec2Model ----
(***************************************************************************)
(* radux: the configuration gate, bounded parser, command policy,          *)
(* dispatcher and navigation stack of the radial menu.                     *)
(*                                                                         *)
(* Strings are sequences of one-character strings, so that find, substr    *)
(* and prefix tests are computed character by character as the C++ does.   *)
(* The character ` is written "BACKTICK" (the lexer rejects it in a        *)
(* string).                                                                *)
(***************************************************************************)
EXTENDS Integers, Sequences, FiniteSets, TLC

VARIABLES
    pc,                 \* position of main / of the operation under check
    command,            \* the command string handed to CommandBlacklist
    name_hit,           \* result of CommandBlacklist::is_blacklisted
    pattern_hit,        \* result of CommandBlacklist::has_dangerous_patterns
    info,               \* kind of message of get_blacklisted_info
    filepath,           \* the path given to RadialConfig::from_yaml
    file,               \* what the filesystem holds at that path
    path_allowed,       \* result of PathValidator::is_config_path_allowed
    cli_string,         \* the --cli argument ("" when absent)
    config,             \* g_config: the RadialConfig main holds
    parse_attempted,    \* YAML::LoadFile was called
    diag,               \* lines written to std::cerr, in order
    valid,              \* result of RadialConfig::validate
    menu_stack,         \* RadialMenu::menu_stack_
    current_menu_path,  \* RadialMenu::current_menu_path_
    is_closing,         \* RadialMenu::is_closing_
    window,             \* "none", "shown" or "closed"
    hovered_button,     \* RadialMenu::hovered_button_ (-1: none, else 0-based)
    item_hotkeys,       \* HotkeyManager::item_hotkeys_
    hotkey_map,         \* HotkeyManager::hotkey_map_ (combo -> 0-based index)
    last_event,         \* the click or key press the window handled last
    dispatched,         \* items handed to execute_command that had a command
    spawned,            \* processes created so far, in order
    detached,           \* one SafeExecutor::execute_async call and its processes
    piped,              \* one SafeExecutor::execute call, its pipes and its child
    startup,            \* two instances going through main, and the pid file
    auto_close_timer    \* the timeout source of on_auto_close_timeout is installed

vars == <<pc, command, name_hit, pattern_hit, info, filepath, file, path_allowed, cli_string,
          config, parse_attempted, diag, valid, menu_stack, current_menu_path,
          is_closing, window, hovered_button, item_hotkeys, hotkey_map, last_event,
          dispatched, spawned, detached, piped, startup, auto_close_timer>>

execVars == <<detached, piped, startup>>
policyVars == <<command, name_hit, pattern_hit, info>>
loadVars == <<filepath, file, path_allowed, cli_string, config, parse_attempted, diag, valid>>
configVars == <<filepath, file, path_allowed, cli_string, config, parse_attempted, valid>>
menuVars ==
    <<menu_stack, current_menu_path, is_closing, window, hovered_button,
      item_hotkeys, hotkey_map, last_event, dispatched, spawned, auto_close_timer>>

-----------------------------------------------------------------------------
(* std::string helpers *)

npos == 0

Str(n, alphabet) == UNION {[1..k -> alphabet] : k \in 0..n}

\* s.substr(pos) with a 1-based pos
SubFrom(s, pos) == SubSeq(s, pos, Len(s))

\* s.find(p) != npos
Contains(s, p) ==
    \E i \in 1..(Len(s) - Len(p) + 1) : SubSeq(s, i, i + Len(p) - 1) = p

\* s.rfind(p, 0) == 0
StartsWith(s, p) == Len(p) <= Len(s) /\ SubSeq(s, 1, Len(p)) = p

Min(S) == CHOOSE x \in S : \A y \in S : x <= y
Max(S) == CHOOSE x \in S : \A y \in S : x >= y

\* 1-based index, npos when there is none
find_first_of(s, cs) ==
    LET hits == {i \in 1..Len(s) : s[i] \in cs} IN IF hits = {} THEN npos ELSE Min(hits)
find_last_of(s, cs) ==
    LET hits == {i \in 1..Len(s) : s[i] \in cs} IN IF hits = {} THEN npos ELSE Max(hits)
find_first_not_of(s, cs) ==
    LET hits == {i \in 1..Len(s) : s[i] \notin cs} IN IF hits = {} THEN npos ELSE Min(hits)
find_last_not_of(s, cs) ==
    LET hits == {i \in 1..Len(s) : s[i] \notin cs} IN IF hits = {} THEN npos ELSE Max(hits)

-----------------------------------------------------------------------------
(* CommandBlacklist *)

blacklisted_commands_ == {
    <<"r","m">>, <<"r","m","d","i","r">>, <<"s","h","r","e","d">>, <<"w","i","p","e">>,
    <<"u","s","e","r","a","d","d">>, <<"u","s","e","r","d","e","l">>,
    <<"u","s","e","r","m","o","d">>, <<"p","a","s","s","w","d">>,
    <<"c","h","p","a","s","s","w","d">>, <<"g","r","o","u","p","a","d","d">>,
    <<"g","r","o","u","p","d","e","l">>, <<"g","r","o","u","p","m","o","d">>,
    <<"c","h","m","o","d">>, <<"c","h","o","w","n">>, <<"c","h","g","r","p">>, <<"s","u">>,
    <<"s","u","d","o">>, <<"d","o","a","s">>, <<"p","k","e","x","e","c">>, <<"a","p","t">>,
    <<"a","p","t","-","g","e","t">>, <<"d","n","f">>, <<"y","u","m">>,
    <<"p","a","c","m","a","n">>, <<"z","y","p","p","e","r">>, <<"e","m","e","r","g","e">>,
    <<"f","l","a","t","p","a","k">>, <<"s","n","a","p">>,
    <<"s","y","s","t","e","m","c","t","l">>, <<"s","e","r","v","i","c","e">>,
    <<"i","n","i","t">>, <<"t","e","l","i","n","i","t">>, <<"s","h","u","t","d","o","w","n">>,
    <<"r","e","b","o","o","t">>, <<"p","o","w","e","r","o","f","f">>, <<"h","a","l","t">>,
    <<"i","p","t","a","b","l","e","s">>, <<"n","f","t">>, <<"u","f","w">>,
    <<"f","i","r","e","w","a","l","l","-","c","m","d">>, <<"n","e","t","s","t","a","t">>,
    <<"s","s">>, <<"t","c","p","d","u","m","p">>, <<"w","i","r","e","s","h","a","r","k">>,
    <<"f","d","i","s","k">>, <<"p","a","r","t","e","d">>, <<"m","k","f","s">>, <<"d","d">>,
    <<"m","o","u","n","t">>, <<"u","m","o","u","n","t">>, <<"m","o","d","p","r","o","b","e">>,
    <<"i","n","s","m","o","d">>, <<"r","m","m","o","d">>, <<"l","s","m","o","d">>,
    <<"g","r","u","b","-","i","n","s","t","a","l","l">>,
    <<"u","p","d","a","t","e","-","g","r","u","b">>,
    <<"e","f","i","b","o","o","t","m","g","r">>, <<"c","r","y","p","t","s","e","t","u","p">>,
    <<"o","p","e","n","s","s","l">>, <<"s","h">>, <<"b","a","s","h">>, <<"z","s","h">>,
    <<"f","i","s","h">>, <<"d","a","s","h">>, <<"t","c","s","h">>, <<"c","s","h">>,
    <<"k","s","h">>, <<"v","i","m">>, <<"v","i">>, <<"n","a","n","o">>,
    <<"e","m","a","c","s">>, <<"e","d">>, <<"w","g","e","t">>, <<"c","u","r","l">>,
    <<"a","r","i","a","2","c">>, <<"n","c">>
}

dangerous_patterns_mut ==
    << <<"|">>, <<">">>, <<">", ">">>, <<"<">>, <<"&">>, <<";">>, <<"$", "(">>,
       <<"$", "{">>, <<"&", "&">>, <<"|", "|">>, <<"\\", "n">>, <<"\\", "r">> >>

dangerous_patterns_ ==
    << <<"|">>, <<">">>, <<">", ">">>, <<"<">>, <<"&">>, <<";">>, <<"$", "(">>,
       <<"BACKTICK">>, <<"$", "{">>, <<"&", "&">>, <<"|", "|">>, <<"\\", "n">>,
       <<"\\", "r">> >>

trim(str) ==
    LET ws == {" ", "\t", "\n", "\r"}
        start == find_first_not_of(str, ws)
        end == find_last_not_of(str, ws)
    IN  IF start = npos THEN <<>> ELSE SubSeq(str, start, end)

extract_command_name(cmd_str) ==
    LET trimmed == trim(cmd_str)
        space_pos == find_first_of(trimmed, {" ", "\t"})
        cmd == IF space_pos = npos THEN trimmed ELSE SubSeq(trimmed, 1, space_pos - 1)
        slash_pos == find_last_of(cmd, {"/", "\\"})
    IN  IF slash_pos # npos THEN SubFrom(cmd, slash_pos + 1) ELSE cmd

is_blacklisted(cmd_str) == extract_command_name(cmd_str) \in blacklisted_commands_

has_dangerous_patterns(cmd_str) ==
    \E i \in 1..Len(dangerous_patterns_) : Contains(cmd_str, dangerous_patterns_[i])

get_blacklisted_info(cmd_str) ==
    IF extract_command_name(cmd_str) \in blacklisted_commands_ THEN "blacklisted-name"
    ELSE IF has_dangerous_patterns(cmd_str) THEN "dangerous-pattern"
    ELSE "validation-failed"

-----------------------------------------------------------------------------
(* Color and Theme                                                         *)
(*                                                                         *)
(* A Color holds r, g, b as the numerator over 255 and a as the numerator  *)
(* over 255 * 100, so that the default alphas 0.85 and 0.9 are integers.   *)

AlphaOpaque == 25500

\* Color(): transparent black, the unset state
UnsetColor == [r |-> 0, g |-> 0, b |-> 0, a |-> 0]

\* Color::from_rgb with the default alpha of 255
from_rgb(red, green, blue) == [r |-> red, g |-> green, b |-> blue, a |-> AlphaOpaque]

HexDigits ==
    <<"0", "1", "2", "3", "4", "5", "6", "7", "8", "9", "a", "b", "c", "d", "e", "f">>

HexValue(c) == (CHOOSE i \in 1..Len(HexDigits) : HexDigits[i] = c) - 1

\* two hexadecimal digits read through std::hex
HexPair(h, at) == 16 * HexValue(h[at]) + HexValue(h[at + 1])

\* Color::from_hex, for strings of hexadecimal digits with or without '#'
from_hex(hex) ==
    LET h == IF hex # <<>> /\ hex[1] = "#" THEN Tail(hex) ELSE hex
    IN  IF Len(h) >= 6
        THEN [r |-> HexPair(h, 1), g |-> HexPair(h, 3), b |-> HexPair(h, 5),
              a |-> IF Len(h) >= 8 THEN 100 * HexPair(h, 7) ELSE AlphaOpaque]
        ELSE [UnsetColor EXCEPT !.a = AlphaOpaque]

\* Color::is_set
is_set(c) == c.a > 0

\* Theme(): the built-in colours
DefaultTheme ==
    [background_color |-> [from_rgb(34, 34, 34) EXCEPT !.a = 21675],
     hover_color |-> [from_rgb(76, 128, 204) EXCEPT !.a = 22950],
     border_color |-> [from_rgb(230, 230, 230) EXCEPT !.a = 22950],
     font_color |-> from_rgb(255, 255, 255),
     center_color |-> [from_rgb(38, 38, 38) EXCEPT !.a = 22950],
     font_size |-> 14]

\* node[key] of a mapping whose style keys are the function keys
HasKey(keys, key) == key \in DOMAIN keys

\* Theme::from_yaml: the built-in theme with the keys of the node on top
Theme_from_yaml(keys) ==
    [background_color |-> IF HasKey(keys, "background-color")
                          THEN from_hex(keys["background-color"])
                          ELSE DefaultTheme.background_color,
     hover_color |-> IF HasKey(keys, "hover-color") THEN from_hex(keys["hover-color"])
                     ELSE DefaultTheme.hover_color,
     border_color |-> IF HasKey(keys, "border-color") THEN from_hex(keys["border-color"])
                      ELSE DefaultTheme.border_color,
     font_color |-> IF HasKey(keys, "font-color") THEN from_hex(keys["font-color"])
                    ELSE DefaultTheme.font_color,
     center_color |-> IF HasKey(keys, "center-color") THEN from_hex(keys["center-color"])
                      ELSE DefaultTheme.center_color,
     font_size |-> IF HasKey(keys, "font-size") THEN keys["font-size"]
                   ELSE DefaultTheme.font_size]

\* Theme::inherit_from: a field of the parent replaces one that is not set
inherit_from(theme, parent) ==
    [background_color |-> IF ~is_set(theme.background_color) THEN parent.background_color
                          ELSE theme.background_color,
     hover_color |-> IF ~is_set(theme.hover_color) THEN parent.hover_color
                     ELSE theme.hover_color,
     border_color |-> IF ~is_set(theme.border_color) THEN parent.border_color
                      ELSE theme.border_color,
     font_color |-> IF ~is_set(theme.font_color) THEN parent.font_color
                    ELSE theme.font_color,
     center_color |-> IF ~is_set(theme.center_color) THEN parent.center_color
                      ELSE theme.center_color,
     font_size |-> IF theme.font_size = 14 /\ parent.font_size # 14 THEN parent.font_size
                   ELSE theme.font_size]

ItemColorKeys == {"background-color", "hover-color", "border-color", "font-color"}

GlobalThemeKeys == ItemColorKeys \cup {"center-color", "font-size"}

-----------------------------------------------------------------------------
(* MenuItem and RadialConfig *)

\* MenuItem(): the default-constructed item
DefaultMenuItem ==
    [label |-> <<>>, description |-> <<>>, command |-> <<>>, submenu |-> <<>>,
     notify |-> FALSE, hotkey |-> <<>>, theme_override |-> <<>>]

\* MenuItem(label, command, description): the leaf constructor
LeafItem(label, cmd_str, description) ==
    [DefaultMenuItem EXCEPT !.label = label, !.command = cmd_str,
                            !.description = description]

\* MenuItem(label, submenu, description): the submenu constructor
BranchItem(label, submenu, description) ==
    [DefaultMenuItem EXCEPT !.label = label, !.submenu = submenu,
                            !.description = description]

has_submenu_mut(item) == TRUE

has_submenu(item) == item.submenu # <<>>

is_valid(item) == item.label # <<>>

\* MenuItem::get_effective_theme
get_effective_theme(item, parent) ==
    IF item.theme_override # <<>> THEN inherit_from(item.theme_override[1], parent)
    ELSE parent

DEFAULT_RADIUS == 120
DEFAULT_CENTER_RADIUS == 40

\* a default-constructed RadialConfig
DefaultConfig ==
    [radius |-> DEFAULT_RADIUS, center_radius |-> DEFAULT_CENTER_RADIUS,
     theme |-> DefaultTheme, auto_close_milliseconds |-> 0, items |-> <<>>]

RECURSIVE validate_item_commands_mut(_)
validate_item_commands_mut(item) ==
    IF has_submenu(item)
    THEN \A i \in 1..Len(item.submenu) : validate_item_commands_mut(item.submenu[i])
    ELSE IF item.command # <<>>
         THEN ~is_blacklisted(item.command)
         ELSE TRUE

RECURSIVE validate_item_commands(_)
validate_item_commands(item) ==
    IF has_submenu(item)
    THEN \A i \in 1..Len(item.submenu) : validate_item_commands(item.submenu[i])
    ELSE IF item.command # <<>>
         THEN ~is_blacklisted(item.command) /\ ~has_dangerous_patterns(item.command)
         ELSE TRUE

validate_mut(cfg) ==
    /\ cfg.radius >= 1
    /\ cfg.center_radius >= 1
    /\ cfg.items # <<>>
    /\ \A i \in 1..Len(cfg.items) : is_valid(cfg.items[i])
    /\ \A i \in 1..Len(cfg.items) :
          has_submenu(cfg.items[i]) \/ validate_item_commands(cfg.items[i])

validate(cfg) ==
    /\ cfg.radius >= 1
    /\ cfg.center_radius >= 1
    /\ cfg.items # <<>>
    /\ \A i \in 1..Len(cfg.items) : is_valid(cfg.items[i])
    /\ \A i \in 1..Len(cfg.items) : validate_item_commands(cfg.items[i])

RECURSIVE count_items_recursive(_)
count_items_recursive(item) ==
    LET RECURSIVE sum(_)
        sum(k) == IF k = 0 THEN 0
                  ELSE sum(k - 1) + count_items_recursive(item.submenu[k])
    IN  1 + (IF has_submenu(item) THEN sum(Len(item.submenu)) ELSE 0)

count_total_items(cfg) ==
    LET RECURSIVE sum(_)
        sum(k) == IF k = 0 THEN 0
                  ELSE sum(k - 1) + count_items_recursive(cfg.items[k])
    IN  sum(Len(cfg.items))

-----------------------------------------------------------------------------
(* Hotkey and HotkeyManager *)

LowerChars == <<"a", "b", "c", "e", "l", "n", "p", "r", "s", "t", "u">>
UpperChars == <<"A", "B", "C", "E", "L", "N", "P", "R", "S", "T", "U">>

\* ::toupper on one character
toupper(c) ==
    IF \E k \in 1..Len(LowerChars) : LowerChars[k] = c
    THEN UpperChars[CHOOSE k \in 1..Len(LowerChars) : LowerChars[k] = c]
    ELSE c

GDK_KEY_VoidSymbol == <<"VoidSymbol">>
GDK_KEY_Escape == <<"E", "s", "c", "a", "p", "e">>
GDK_KEY_Return == <<"R", "e", "t", "u", "r", "n">>

\* gdk_keyval_from_name: a key value is written as the name of its key; the
\* names are case-sensitive
gdk_keyval_from_name(name) ==
    IF name \in {<<"a">>, <<"b">>, <<"A">>, <<"B">>, GDK_KEY_Escape, GDK_KEY_Return}
    THEN name ELSE GDK_KEY_VoidSymbol

gdk_keyval_to_upper(keyval) ==
    IF Len(keyval) = 1 THEN <<toupper(keyval[1])>> ELSE keyval

\* the modifier a part of the combination before a '+' names
modifier_of(mod) ==
    IF mod \in {<<"C", "T", "R", "L">>, <<"C", "O", "N", "T", "R", "O", "L">>} THEN {"CONTROL"}
    ELSE IF mod = <<"A", "L", "T">> THEN {"ALT"}
    ELSE IF mod = <<"S", "H", "I", "F", "T">> THEN {"SHIFT"}
    ELSE IF mod \in {<<"S", "U", "P", "E", "R">>, <<"W", "I", "N">>, <<"M", "E", "T", "A">>} THEN {"SUPER"}
    ELSE {}

\* the while loop of Hotkey::from_string from position pos (1-based)
RECURSIVE hotkey_parts(_, _, _, _)
hotkey_parts(str, upper, pos, modifiers) ==
    IF pos > Len(upper) THEN [keyval |-> GDK_KEY_VoidSymbol, modifiers |-> modifiers]
    ELSE LET plus == find_first_of(SubFrom(upper, pos), {"+"})
             plus_pos == pos + plus - 1
         IN  IF plus = npos
             THEN LET by_upper == gdk_keyval_from_name(SubFrom(upper, pos))
                  IN  [keyval |-> IF by_upper = GDK_KEY_VoidSymbol
                                  THEN gdk_keyval_from_name(SubFrom(str, pos))
                                  ELSE by_upper,
                       modifiers |-> modifiers]
             ELSE hotkey_parts(str, upper, plus_pos + 1,
                               modifiers \cup modifier_of(SubSeq(upper, pos, plus_pos - 1)))

\* Hotkey::from_string
from_string(str) ==
    LET hk == hotkey_parts(str, [k \in 1..Len(str) |-> toupper(str[k])], 1, {})
    IN  [combo |-> str, keyval |-> hk.keyval, modifiers |-> hk.modifiers \ {"LOCK"}]

\* Hotkey::matches
matches(hk, keyval, state) ==
    LET normalized_state == state \ {"LOCK"}
    IN  \/ hk.keyval = keyval /\ hk.modifiers = normalized_state
        \/ /\ gdk_keyval_to_upper(hk.keyval) = gdk_keyval_to_upper(keyval)
           /\ hk.modifiers = normalized_state

\* HotkeyManager::build_map: item_hotkeys_ holds an optional Hotkey per item
\* (a sequence of length 0 or 1), hotkey_map_ the last index per combination
build_item_hotkeys(items) ==
    [i \in 1..Len(items) |->
        IF items[i].hotkey # <<>> THEN <<from_string(items[i].hotkey[1])>> ELSE <<>>]

build_hotkey_map(items) ==
    { [combo |-> items[i].hotkey[1], index |-> i - 1] :
        i \in { j \in 1..Len(items) :
                  /\ items[j].hotkey # <<>>
                  /\ \A k \in (j + 1)..Len(items) : items[k].hotkey # items[j].hotkey } }

\* HotkeyManager::find_item: the indices the loop over the unordered map may
\* return; none when the set is empty
find_item(keyval, state) ==
    { entry.index : entry \in
        { en \in hotkey_map :
            /\ en.index < Len(item_hotkeys)
            /\ item_hotkeys[en.index + 1] # <<>>
            /\ matches(item_hotkeys[en.index + 1][1], keyval, state) } }

-----------------------------------------------------------------------------
(* The filesystem and std::filesystem::path                                *)
(*                                                                         *)
(* A path is [abs, comps]; a component is a name, "." or ".."; a name is a *)
(* sequence of string pieces, so that one name can be a string prefix of   *)
(* another (radux, radux-other).  A canonical location is a sequence of    *)
(* names below the root directory.                                         *)

Dot == <<".">>
DotDot == <<"..">>
NameH == <<"h">>
NameConfig == <<".config">>
NameRadux == <<"radux">>
NameRaduxOther == <<"radux", "-other">>
NameWork == <<"work">>
NameEtc == <<"etc">>
NameLink == <<"link">>
NameC == <<"c.yaml">>
NameNew == <<"new">>

HomeDir == <<NameH>>                      \* $HOME
Cwd == <<NameWork>>                       \* std::filesystem::current_path()
EtcDir == <<NameEtc>>

FsDirs ==
    { <<>>, HomeDir, <<NameH, NameConfig>>, <<NameH, NameConfig, NameRadux>>,
      <<NameH, NameConfig, NameRaduxOther>>, Cwd, EtcDir }

FsFiles ==
    { <<NameH, NameConfig, NameRadux, NameC>>, <<NameH, NameConfig, NameRaduxOther, NameC>>,
      <<NameWork, NameC>>, <<NameEtc, NameC>> }

\* the one symbolic link: /work/link -> /etc
FsLinkAt == <<NameWork, NameLink>>
FsLinkTarget == EtcDir

NotFound == [found |-> FALSE, loc |-> <<>>]

\* the location the operating system resolves comps to, starting at loc
RECURSIVE Resolve(_, _)
Resolve(loc, comps) ==
    IF comps = <<>> THEN [found |-> TRUE, loc |-> loc]
    ELSE IF loc \notin FsDirs THEN NotFound                       \* ENOTDIR
    ELSE LET c == Head(comps)
             next == Append(loc, c)
         IN  IF c = Dot THEN Resolve(loc, Tail(comps))
             ELSE IF c = DotDot
                  THEN Resolve(IF loc = <<>> THEN loc ELSE SubSeq(loc, 1, Len(loc) - 1),
                               Tail(comps))
             ELSE IF next = FsLinkAt THEN Resolve(FsLinkTarget, Tail(comps))
             ELSE IF next \in FsDirs \cup FsFiles THEN Resolve(next, Tail(comps))
             ELSE NotFound                                        \* ENOENT

\* status(p): where p leads, symbolic links followed
Status(p) == Resolve(IF p.abs THEN <<>> ELSE Cwd, p.comps)

exists(p) == Status(p).found
is_directory(p) == Status(p).found /\ Status(p).loc \in FsDirs

AbsPath(loc) == [abs |-> TRUE, comps |-> loc]

\* path::lexically_normal
RECURSIVE LexNormal(_, _, _)
LexNormal(abs, done, comps) ==
    IF comps = <<>> THEN [abs |-> abs, comps |-> done]
    ELSE LET c == Head(comps) IN
         IF c = Dot THEN LexNormal(abs, done, Tail(comps))
         ELSE IF c = DotDot
              THEN IF done # <<>> /\ done[Len(done)] # DotDot
                   THEN LexNormal(abs, SubSeq(done, 1, Len(done) - 1), Tail(comps))
                   ELSE IF abs THEN LexNormal(abs, done, Tail(comps))
                   ELSE LexNormal(abs, Append(done, c), Tail(comps))
         ELSE LexNormal(abs, Append(done, c), Tail(comps))

\* std::filesystem::weakly_canonical: canonical form of the longest leading
\* part that exists, the rest appended and normalized lexically
weakly_canonical(p) ==
    IF exists(p) THEN AbsPath(Status(p).loc)
    ELSE LET lead == {k \in 0..Len(p.comps) :
                         \A j \in 1..k : exists([p EXCEPT !.comps = SubSeq(p.comps, 1, j)])}
             k == Max(lead)
             rest == SubSeq(p.comps, k + 1, Len(p.comps))
         IN  IF k = 0 /\ ~p.abs THEN LexNormal(FALSE, <<>>, rest)
             ELSE LexNormal(TRUE,
                            Status([p EXCEPT !.comps = SubSeq(p.comps, 1, k)]).loc, rest)

\* path::string()
RECURSIVE JoinComps(_)
JoinComps(comps) ==
    IF comps = <<>> THEN <<>>
    ELSE IF Len(comps) = 1 THEN comps[1]
    ELSE comps[1] \o <<"/">> \o JoinComps(Tail(comps))

PathString(p) == (IF p.abs THEN <<"/">> ELSE <<>>) \o JoinComps(p.comps)

-----------------------------------------------------------------------------
(* PathValidator *)

get_home_directory == AbsPath(HomeDir)

normalize_path(p) == weakly_canonical(p)

is_in_directory_mut(p, directory) ==
    LET np == normalize_path(p)
        dir_str == PathString(normalize_path(directory))
        path_str0 == PathString(np)
        path_str == IF path_str0 # <<>> /\ path_str0[Len(path_str0)] # "/"
                       /\ is_directory(np)
                    THEN Append(path_str0, "/") ELSE path_str0
    IN  StartsWith(path_str, dir_str)

is_in_directory(p, directory) ==
    LET np == normalize_path(p)
        dir_str0 == PathString(normalize_path(directory))
        dir_str == IF dir_str0 # <<>> /\ dir_str0[Len(dir_str0)] # "/"
                   THEN Append(dir_str0, "/") ELSE dir_str0
        path_str0 == PathString(np)
        path_str == IF path_str0 # <<>> /\ path_str0[Len(path_str0)] # "/"
                       /\ is_directory(np)
                    THEN Append(path_str0, "/") ELSE path_str0
    IN  StartsWith(path_str, dir_str)

\* home + "/.config/radux"
config_dir ==
    [get_home_directory EXCEPT !.comps = @ \o <<NameConfig, NameRadux>>]

is_config_path_allowed(p) ==
    LET normalized == normalize_path(p)
    IN  \/ is_in_directory(normalized, config_dir)
        \/ is_in_directory(normalized, AbsPath(Cwd))

-----------------------------------------------------------------------------
(* SecurityLimits *)

MAX_CONFIG_FILE_SIZE == 1048576
MAX_YAML_DEPTH == 10
MAX_MENU_ITEMS == 50
MAX_TOTAL_ITEMS == 200

-----------------------------------------------------------------------------
(* The YAML document and RadialConfig::from_yaml                           *)
(*                                                                         *)
(* A node of the items tree: the keys it has and their values.  conv_error *)
(* says that one of its scalar fields has a value that as<T>() cannot      *)
(* convert (a priority that is no integer, a notify that is no boolean).   *)

YNode(label, cmd_str, has_sub, sub) ==
    [has_label |-> TRUE, label |-> label, command |-> cmd_str, notify |-> FALSE,
     hotkey |-> <<>>, keys |-> <<>>,
     conv_error |-> FALSE, has_submenu |-> has_sub, submenu |-> sub]

YLeaf(label, cmd_str) == YNode(label, cmd_str, FALSE, <<>>)
YBranch(label, sub) == YNode(label, <<>>, TRUE, sub)
YNoLabel(cmd_str) == [YLeaf(<<>>, cmd_str) EXCEPT !.has_label = FALSE]
YBadField(label, cmd_str) == [YLeaf(label, cmd_str) EXCEPT !.conv_error = TRUE]

\* what the filesystem holds at a path
File(is_dir, size, syntax_ok, top_conv_error, has_items, items) ==
    [exists |-> TRUE, is_dir |-> is_dir, size |-> size, syntax_ok |-> syntax_ok,
     top_conv_error |-> top_conv_error, keys |-> <<>>, has_items |-> has_items,
     items |-> items]

NoFile == [File(FALSE, 0, TRUE, FALSE, FALSE, <<>>) EXCEPT !.exists = FALSE]
DirFile == File(TRUE, 0, TRUE, FALSE, FALSE, <<>>)
YamlFile(size, items) == File(FALSE, size, TRUE, FALSE, TRUE, items)

file_too_large_mut(f) == f.size >= MAX_CONFIG_FILE_SIZE

file_too_large(f) == f.size > MAX_CONFIG_FILE_SIZE

depth_exceeded_mut(depth) == depth > MAX_YAML_DEPTH

depth_exceeded(depth) == depth >= MAX_YAML_DEPTH

level_full_mut(count) == count > MAX_MENU_ITEMS

level_full(count) == count >= MAX_MENU_ITEMS

total_exceeded_mut(cfg) == count_total_items(cfg) >= MAX_TOTAL_ITEMS

total_exceeded(cfg) == count_total_items(cfg) > MAX_TOTAL_ITEMS

Returned(item) == [thrown |-> FALSE, item |-> item]
Thrown == [thrown |-> TRUE, item |-> DefaultMenuItem]

RECURSIVE parse_menu_item(_, _, _), parse_submenu(_, _, _, _, _)

\* the loop over node["submenu"]: i is the next node, acc is item.submenu
parse_submenu(nodes, effective_theme, depth, i, acc) ==
    IF i > Len(nodes) \/ level_full(Len(acc))
    THEN [thrown |-> FALSE, items |-> acc]
    ELSE LET r == parse_menu_item(nodes[i], effective_theme, depth)
         IN  IF r.thrown THEN [thrown |-> TRUE, items |-> acc]
             ELSE parse_submenu(nodes, effective_theme, depth, i + 1,
                                IF is_valid(r.item) THEN Append(acc, r.item) ELSE acc)

\* the theme of the parent is handed down from level to level; an item
\* stores a theme only when its own node has a colour key
parse_menu_item(node, parent_theme, depth) ==
    IF depth_exceeded(depth) THEN Returned(DefaultMenuItem)
    ELSE IF ~node.has_label THEN Returned(DefaultMenuItem)
    ELSE IF node.conv_error THEN Thrown
    ELSE LET item == [DefaultMenuItem EXCEPT
                         !.label = node.label,
                         !.command = node.command,
                         !.notify = node.notify,
                         !.hotkey = node.hotkey,
                         !.theme_override =
                             IF \E key \in ItemColorKeys : HasKey(node.keys, key)
                             THEN <<Theme_from_yaml(node.keys)>> ELSE <<>>]
         IN  IF node.has_submenu
             THEN LET effective_theme == get_effective_theme(item, parent_theme)
                      sub == parse_submenu(node.submenu, effective_theme, depth + 1,
                                           1, <<>>)
                  IN  IF sub.thrown THEN Thrown
                      ELSE Returned([item EXCEPT !.submenu = sub.items])
             ELSE IF item.command = <<>> THEN Returned(DefaultMenuItem)
                  ELSE Returned(item)

\* the loop over yaml_config["items"]: what config.items holds when the loop
\* ends or an exception leaves it
RECURSIVE parse_root_items(_, _, _, _)
parse_root_items(nodes, theme, i, acc) ==
    IF i > Len(nodes) \/ level_full(Len(acc))
    THEN [thrown |-> FALSE, items |-> acc]
    ELSE LET r == parse_menu_item(nodes[i], theme, 0)
         IN  IF r.thrown THEN [thrown |-> TRUE, items |-> acc]
             ELSE parse_root_items(nodes, theme, i + 1,
                                   IF is_valid(r.item) THEN Append(acc, r.item) ELSE acc)

\* std::clamp(v, lo, hi)
clamp(v, lo, hi) == IF v < lo THEN lo ELSE IF v > hi THEN hi ELSE v

LoadResult(cfg, allowed, attempted, lines) ==
    [config |-> cfg, path_allowed |-> allowed, parse_attempted |-> attempted,
     diag |-> lines]

from_yaml(path, f) ==
    IF ~is_config_path_allowed(path)
    THEN LoadResult(DefaultConfig, FALSE, FALSE,
                    <<"SECURITY ERROR: Config file path not allowed",
                      "Config files must be in ~/.config/radux/ or relative to current directory.",
                      "Refusing to load config from disallowed path.">>)
    ELSE IF ~f.exists
    THEN LoadResult(DefaultConfig, TRUE, FALSE, <<"Config file does not exist">>)
    ELSE IF f.is_dir
    THEN LoadResult(DefaultConfig, TRUE, FALSE, <<"Error accessing config file">>)
    ELSE IF file_too_large(f)
    THEN LoadResult(DefaultConfig, TRUE, FALSE,
                    <<"SECURITY ERROR: Config file too large", "Maximum allowed size">>)
    ELSE IF ~f.syntax_ok \/ f.top_conv_error
    THEN LoadResult(DefaultConfig, TRUE, TRUE, <<"Error loading YAML">>)
    ELSE LET theme == IF \E key \in GlobalThemeKeys : HasKey(f.keys, key)
                      THEN Theme_from_yaml(f.keys) ELSE DefaultTheme
             root == IF f.has_items THEN parse_root_items(f.items, theme, 1, <<>>)
                     ELSE [thrown |-> FALSE, items |-> <<>>]
             ac == IF HasKey(f.keys, "auto-close-milliseconds")
                   THEN clamp(f.keys["auto-close-milliseconds"], 0, 60000)
                   ELSE DefaultConfig.auto_close_milliseconds
             cfg == [DefaultConfig EXCEPT !.theme = theme, !.auto_close_milliseconds = ac,
                                          !.items = root.items]
         IN  IF root.thrown
             THEN LoadResult(cfg, TRUE, TRUE, <<"Error loading YAML">>)
             ELSE IF total_exceeded(cfg)
             THEN LoadResult([cfg EXCEPT !.items = <<>>], TRUE, TRUE,
                             <<"SECURITY ERROR: Total menu items exceed limit">>)
             ELSE LoadResult(cfg, TRUE, TRUE, <<>>)

-----------------------------------------------------------------------------
(* RadialConfig::from_command_line *)

\* std::getline(ss, item_str, ';') until the stream ends
RECURSIVE SplitItems(_, _)
SplitItems(str, cur) ==
    IF str = <<>> THEN (IF cur = <<>> THEN <<>> ELSE <<cur>>)
    ELSE IF Head(str) = ";" THEN <<cur>> \o SplitItems(Tail(str), <<>>)
    ELSE SplitItems(Tail(str), Append(cur, Head(str)))

\* item_str.erase(0, find_first_not_of(" \t")); item_str.erase(find_last_not_of(" \t") + 1)
trim_blanks(str) ==
    LET first == find_first_not_of(str, {" ", "\t"})
        cut == IF first = npos THEN <<>> ELSE SubFrom(str, first)
    IN  SubSeq(cut, 1, find_last_not_of(cut, {" ", "\t"}))

\* the loop of parse_cli_item: i is the 1-based position, parts the fields
\* cut so far, start the 1-based start of the field being read
RECURSIVE split_fields(_, _, _, _)
split_fields(str, i, start, parts) ==
    IF i > Len(str) \/ Len(parts) >= 3
    THEN IF start <= Len(str) /\ Len(parts) < 3
         THEN Append(parts, SubFrom(str, start)) ELSE parts
    ELSE IF str[i] = ":" /\ (i = 1 \/ str[i - 1] # "\\")
         THEN split_fields(str, i + 1, i + 1, Append(parts, SubSeq(str, start, i - 1)))
         ELSE split_fields(str, i + 1, start, parts)

parse_cli_item(item_str) ==
    LET cut == split_fields(item_str, 1, 1, <<>>)
        parts == [k \in 1..3 |-> IF k <= Len(cut) THEN cut[k] ELSE <<>>]
        label == parts[1]
        no_description == parts[3] = <<>> /\ parts[2] # <<>>
        cmd_str == IF no_description THEN parts[2] ELSE parts[3]
        description0 == IF no_description THEN <<>> ELSE parts[2]
        description == IF description0 = <<>> THEN label ELSE description0
    IN  LeafItem(label, cmd_str, description)

from_command_line(str) ==
    LET segments == SplitItems(str, <<>>)
        RECURSIVE collect(_, _)
        collect(k, acc) ==
            IF k > Len(segments) THEN acc
            ELSE LET item_str == trim_blanks(segments[k])
                     item == parse_cli_item(item_str)
                 IN  collect(k + 1, IF item_str # <<>> /\ is_valid(item)
                                    THEN Append(acc, item) ELSE acc)
    IN  [DefaultConfig EXCEPT !.items = collect(1, <<>>)]

-----------------------------------------------------------------------------
(* Process creation *)

\* ShellEscaper::parse_command: the command split at white space
RECURSIVE split_words(_, _)
split_words(str, cur) ==
    IF str = <<>> THEN (IF cur = <<>> THEN <<>> ELSE <<cur>>)
    ELSE IF Head(str) \in {" ", "\t", "\n", "\r"}
         THEN (IF cur = <<>> THEN <<>> ELSE <<cur>>) \o split_words(Tail(str), <<>>)
         ELSE split_words(Tail(str), Append(cur, Head(str)))

parse_command(cmd_str) ==
    LET words == split_words(cmd_str, <<>>)
    IN  IF words = <<>> THEN [base_cmd |-> <<>>, args |-> <<>>]
        ELSE [base_cmd |-> Head(words), args |-> Tail(words)]

\* g_shell_parse_argv, which Glib::spawn_command_line_sync/async apply to
\* the command line: words are split at blanks outside quotes, quotes are
\* removed, a backslash makes the next character literal (a backslash and
\* a newline vanish), a # that starts a word starts a comment; unbalanced
\* quoting, a trailing backslash or no word at all is an error
RECURSIVE shell_words(_, _, _, _, _)
shell_words(str, quote, cur, in_word, acc) ==
    IF str = <<>>
    THEN IF quote # "none" THEN [ok |-> FALSE, argv |-> <<>>]
         ELSE LET all == IF in_word THEN Append(acc, cur) ELSE acc
              IN  [ok |-> all # <<>>, argv |-> all]
    ELSE LET c == Head(str)
             rest == Tail(str)
         IN  IF quote = "single"
             THEN IF c = "'" THEN shell_words(rest, "none", cur, TRUE, acc)
                  ELSE shell_words(rest, quote, Append(cur, c), TRUE, acc)
             ELSE IF quote = "double"
             THEN IF c = "\"" THEN shell_words(rest, "none", cur, TRUE, acc)
                  ELSE IF c = "\\" /\ rest # <<>> /\ Head(rest) = "\n"
                  THEN shell_words(Tail(rest), quote, cur, TRUE, acc)
                  ELSE IF c = "\\" /\ rest # <<>>
                          /\ Head(rest) \in {"\"", "\\", "BACKTICK", "$"}
                  THEN shell_words(Tail(rest), quote, Append(cur, Head(rest)), TRUE, acc)
                  ELSE shell_words(rest, quote, Append(cur, c), TRUE, acc)
             ELSE IF c \in {" ", "\t", "\n"}
             THEN shell_words(rest, quote, <<>>, FALSE,
                              IF in_word THEN Append(acc, cur) ELSE acc)
             ELSE IF c = "#" /\ ~in_word
             THEN LET eol == find_first_of(rest, {"\n"})
                  IN  shell_words(IF eol = npos THEN <<>> ELSE SubFrom(rest, eol),
                                  quote, cur, FALSE, acc)
             ELSE IF c = "'" THEN shell_words(rest, "single", cur, TRUE, acc)
             ELSE IF c = "\"" THEN shell_words(rest, "double", cur, TRUE, acc)
             ELSE IF c = "\\"
             THEN IF rest = <<>> THEN [ok |-> FALSE, argv |-> <<>>]
                  ELSE IF Head(rest) = "\n"
                  THEN shell_words(Tail(rest), quote, cur, in_word, acc)
                  ELSE shell_words(Tail(rest), quote, Append(cur, Head(rest)), TRUE, acc)
             ELSE shell_words(rest, quote, Append(cur, c), TRUE, acc)

g_shell_parse_argv(command_line) == shell_words(command_line, "none", <<>>, FALSE, <<>>)

\* the process Glib::spawn_command_line_sync/async creates for a command
\* line: the parsed words are the argument vector, argv[0] is searched on
\* PATH, no shell is started
Spawn(mode, command_line) ==
    [mode |-> mode, command_line |-> command_line,
     argv |-> g_shell_parse_argv(command_line).argv, via_shell |-> FALSE]

-----------------------------------------------------------------------------
(* Idle values of the state a specification does not use *)

IdlePolicy ==
    /\ command = <<>>
    /\ name_hit = FALSE
    /\ pattern_hit = FALSE
    /\ info = "none"

IdleLoad ==
    /\ filepath = <<>>
    /\ file = NoFile
    /\ path_allowed = FALSE
    /\ cli_string = <<>>
    /\ config = DefaultConfig
    /\ parse_attempted = FALSE
    /\ diag = <<>>
    /\ valid = FALSE

IdleMenu ==
    /\ menu_stack = <<>>
    /\ current_menu_path = <<>>
    /\ is_closing = FALSE
    /\ window = "none"
    /\ hovered_button = -1
    /\ item_hotkeys = <<>>
    /\ hotkey_map = {}
    /\ last_event = "none"
    /\ dispatched = <<>>
    /\ spawned = <<>>
    /\ auto_close_timer = FALSE

\* no execute_async call in progress
NoCall ==
    [ parent |-> "idle", result |-> FALSE, stdio |-> <<>>, command |-> <<>>,
      args |-> <<>>, child |-> "none", child_status |-> 0, grandchild |-> "none",
      grandchild_parent |-> "none", fds |-> <<>>, argv |-> <<>>,
      program_status |-> -1 ]

IdleAsync == detached = NoCall

\* no execute call in progress
NoSync ==
    [ parent |-> "idle", exit_code |-> 0, stdout |-> 0, stderr |-> 0, fds |-> {},
      child |-> "none", child_status |-> 0, child_fds |-> {}, program |-> <<>>,
      script |-> <<>>,
      out_pipe |-> 0, err_pipe |-> 0 ]

IdleSync == piped = NoSync

\* no instance started
NoStartup == [pid_file |-> "absent", bus |-> FALSE, proc |-> <<>>]

IdleStartup == startup = NoStartup

IdleExec == IdleAsync /\ IdleSync /\ IdleStartup

-----------------------------------------------------------------------------
(* SpecPolicy: the command policy applied to every short command string    *)
(* and to the named examples, then validate() on a configuration holding   *)
(* the command on one leaf.                                                *)

MaxCmdLen == 3

CmdAlphabet ==
    {"|", ">", "<", "&", ";", "$", "(", "{", "BACKTICK", "\\", "n", "r", "m", "/",
     " ", "\n", "R"}

CmdExamples ==
    { <<"r", "m">>, <<"s", "u", "d", "o">>, <<"b", "a", "s", "h">>,
      <<"/", "b", "i", "n", "/", "r", "m">>, <<" ", "\t", "r", "m">>,
      <<"R", "M">>, <<"S", "u", "d", "o">>, <<"r", "m", " ", "-", "r", "f">>,
      <<"r", "m", "\n", "-", "r", "f">>, <<"l", "s">>, <<"l", "s", "\r", "-", "l">>,
      <<"l", "s", " ", "$", "(", "i", "d", ")">>,
      <<"e", "c", "h", "o", " ", "a", "&", "&", "b">>,
      <<"s", "u", "d", "o", " ", "l", "s", "|", "w", "c">>,
      <<"e", "c", "h", "o", " ", "'", "a", " ", "b", "'">> }

CmdInputs == Str(MaxCmdLen, CmdAlphabet) \cup CmdExamples

Lbl(c) == <<c>>

InitPolicy ==
    /\ pc = "start"
    /\ command \in CmdInputs
    /\ name_hit = FALSE
    /\ pattern_hit = FALSE
    /\ info = "none"
    /\ IdleLoad
    /\ IdleMenu
    /\ IdleExec

\* CommandBlacklist::is_blacklisted, has_dangerous_patterns, get_blacklisted_info
Classify ==
    /\ pc = "start"
    /\ name_hit' = is_blacklisted(command)
    /\ pattern_hit' = has_dangerous_patterns(command)
    /\ info' = get_blacklisted_info(command)
    /\ pc' = "classified"
    /\ UNCHANGED <<execVars, command, loadVars, menuVars>>

\* RadialConfig::validate on a configuration whose only leaf carries the
\* command, at the root level or inside a submenu
ValidateLeaf ==
    /\ pc = "classified"
    /\ \E nested \in BOOLEAN :
          LET leaf == LeafItem(Lbl("A"), command, Lbl("A"))
              items == IF nested THEN <<BranchItem(Lbl("B"), <<leaf>>, <<>>)>>
                       ELSE <<leaf>>
          IN  /\ config' = [DefaultConfig EXCEPT !.items = items]
              /\ valid' = validate(config')
    /\ pc' = "validated"
    /\ UNCHANGED <<execVars, policyVars, filepath, file, path_allowed, cli_string,
                   parse_attempted, diag, menuVars>>

NextPolicy == Classify \/ ValidateLeaf

SpecPolicy == InitPolicy /\ [][NextPolicy]_vars

-----------------------------------------------------------------------------
(* Loading and validating, as main does it *)

\* main: g_config = RadialConfig::from_yaml(config_file)
FromYaml ==
    /\ pc = "start"
    /\ cli_string = <<>>
    /\ LET r == from_yaml(filepath, file)
       IN  /\ config' = r.config
           /\ path_allowed' = r.path_allowed
           /\ parse_attempted' = r.parse_attempted
           /\ diag' = r.diag
    /\ pc' = "loaded"
    /\ UNCHANGED <<execVars, policyVars, filepath, file, cli_string, valid, menuVars>>

\* main: g_config.validate()
Validate ==
    /\ pc = "loaded"
    /\ valid' = validate(config)
    /\ pc' = "validated"
    /\ UNCHANGED <<execVars, policyVars, filepath, file, path_allowed, cli_string, config,
                   parse_attempted, diag, menuVars>>

NextLoad == FromYaml \/ Validate

-----------------------------------------------------------------------------
(* SpecPath: from_yaml on every path of a few components, in a filesystem  *)
(* where every regular file is a small well-formed configuration.          *)

MaxPathTail == 3

PathBases ==
    { [abs |-> FALSE, comps |-> <<>>], AbsPath(<<>>), config_dir,
      AbsPath(<<NameH, NameConfig, NameRaduxOther>>), AbsPath(Cwd) }

TailComps ==
    {DotDot, Dot, NameC, NameLink, NameEtc, NameRadux, NameRaduxOther, NameWork, NameNew}

PathInputs ==
    { [b EXCEPT !.comps = @ \o t] : b \in PathBases, t \in Str(MaxPathTail, TailComps) }

CmdLs == <<"l", "s">>

SmallFile == YamlFile(64, <<YLeaf(Lbl("A"), CmdLs)>>)

\* the file from_yaml finds when it opens p
FileAt(p) ==
    IF ~exists(p) THEN NoFile ELSE IF is_directory(p) THEN DirFile ELSE SmallFile

InitPath ==
    /\ pc = "start"
    /\ filepath \in PathInputs
    /\ file = FileAt(filepath)
    /\ path_allowed = FALSE
    /\ cli_string = <<>>
    /\ config = DefaultConfig
    /\ parse_attempted = FALSE
    /\ diag = <<>>
    /\ valid = FALSE
    /\ IdlePolicy
    /\ IdleMenu
    /\ IdleExec

SpecPath == InitPath /\ [][NextLoad]_vars

-----------------------------------------------------------------------------
(* SpecLoad: from_yaml and validate on configuration files at an allowed   *)
(* path: every short document over a few kinds of node, and families of    *)
(* documents that reach the limits (deep chains, wide levels, many nodes,  *)
(* a field that does not convert).                                         *)

MaxChain == 12          \* deepest chain, in levels below the root item
MaxWide == 52           \* widest level, in valid items
MaxExtra == 2           \* root leaves added to the 4 x 49 grid
MaxThrow == 3           \* longest level holding a node that does not convert
MaxSmallDoc == 2        \* longest enumerated root level

DigitChars == <<"0", "1", "2", "3", "4", "5", "6", "7", "8", "9">>

RECURSIVE Numeral(_)
Numeral(n) ==
    IF n < 10 THEN <<DigitChars[n + 1]>>
    ELSE Numeral(n \div 10) \o <<DigitChars[(n % 10) + 1]>>

CmdRm == <<"r", "m">>
CmdPipe == <<"l", "s", "|", "w", "c">>

\* leaves labelled a, a+1, .., b
Leaves(a, b) == [i \in 1..(b - a + 1) |-> YLeaf(Numeral(a + i - 1), CmdLs)]

\* a branch nested d levels deep, a leaf before and after each nested branch
RECURSIVE Chain(_)
Chain(d) ==
    IF d = 0 THEN YLeaf(Lbl("L"), CmdLs)
    ELSE YBranch(<<"B">> \o Numeral(d),
                 <<YLeaf(Lbl("P"), CmdLs), Chain(d - 1), YLeaf(Lbl("S"), CmdLs)>>)

ChainDocs ==
    { <<Chain(d1), Chain(d2)>> :
        d1 \in 0..MaxChain, d2 \in {0, MAX_YAML_DEPTH - 1, MAX_YAML_DEPTH} }

\* n valid leaves, optionally with invalid nodes among them and a node that
\* does not convert after them
WideLevel(n, mixed, bad_after) ==
    (IF mixed
     THEN <<YNoLabel(CmdLs)>> \o Leaves(1, 2) \o <<YLeaf(Lbl("X"), <<>>)>> \o Leaves(3, n)
     ELSE Leaves(1, n))
    \o (IF bad_after THEN <<YBadField(Lbl("Z"), CmdLs)>> ELSE <<>>)

WideDocs ==
    { IF nested THEN <<YBranch(Lbl("B"), WideLevel(n, mixed, bad_after))>>
      ELSE WideLevel(n, mixed, bad_after) :
        n \in (MAX_MENU_ITEMS - 1)..MaxWide, mixed \in BOOLEAN, bad_after \in BOOLEAN,
        nested \in BOOLEAN }

\* 4 branches of m leaves each, then x root leaves: 4 + 4 m + x nodes
GridDocs ==
    { [i \in 1..4 |-> YBranch(<<"G">> \o Numeral(i), Leaves(1, m))] \o Leaves(1, x) :
        m \in {MAX_MENU_ITEMS - 2, MAX_MENU_ITEMS - 1}, x \in 0..MaxExtra }

\* n leaves, the i-th with a field that does not convert
ThrowLevel(n, i) ==
    [k \in 1..n |-> IF k = i THEN YBadField(Numeral(k), CmdLs) ELSE YLeaf(Numeral(k), CmdLs)]

ThrowDocs ==
    { IF nested THEN <<YLeaf(Lbl("A"), CmdLs), YBranch(Lbl("B"), ThrowLevel(n, i))>>
      ELSE ThrowLevel(n, i) :
        n \in 1..MaxThrow, i \in 1..MaxThrow, nested \in BOOLEAN }

SmallNodes ==
    { YLeaf(Lbl("A"), CmdLs), YLeaf(Lbl("A"), CmdRm), YLeaf(Lbl("A"), CmdPipe),
      YNoLabel(CmdLs), YLeaf(<<>>, CmdLs), YLeaf(Lbl("A"), <<>>),
      YBranch(Lbl("B"), <<>>), YBranch(Lbl("B"), <<YLeaf(Lbl("C"), CmdLs)>>),
      YBranch(Lbl("B"), <<YLeaf(Lbl("C"), CmdRm)>>),
      YNode(Lbl("B"), CmdLs, TRUE, <<YLeaf(Lbl("C"), CmdLs)>>),
      YBadField(Lbl("A"), CmdLs),
      YBranch(Lbl("B"), <<YBranch(Lbl("D"), <<YLeaf(Lbl("C"), CmdPipe)>>)>>) }

SmallDocs == Str(MaxSmallDoc, SmallNodes)

FileSizes == {1024, MAX_CONFIG_FILE_SIZE, MAX_CONFIG_FILE_SIZE + 1}

FileInputs ==
    { YamlFile(size, doc) : size \in FileSizes, doc \in SmallDocs }
    \cup { YamlFile(1024, doc) : doc \in ChainDocs \cup WideDocs \cup GridDocs \cup ThrowDocs }
    \cup { NoFile, DirFile,
           [SmallFile EXCEPT !.syntax_ok = FALSE],
           [SmallFile EXCEPT !.top_conv_error = TRUE],
           [SmallFile EXCEPT !.has_items = FALSE, !.items = <<>>] }

ConfigYaml == AbsPath(<<NameWork, NameC>>)

InitLoad ==
    /\ pc = "start"
    /\ filepath = ConfigYaml
    /\ file \in FileInputs
    /\ path_allowed = FALSE
    /\ cli_string = <<>>
    /\ config = DefaultConfig
    /\ parse_attempted = FALSE
    /\ diag = <<>>
    /\ valid = FALSE
    /\ IdlePolicy
    /\ IdleMenu
    /\ IdleExec

SpecLoad == InitLoad /\ [][NextLoad]_vars

-----------------------------------------------------------------------------
(* Spec: one run of the program. main loads the configuration from the    *)
(* --cli string or from the configuration file, validates it, and either  *)
(* returns 1 or runs the application, whose window then handles clicks,   *)
(* the Escape key and animation ticks until it closes.                    *)

MaxMainDoc == 2
MaxCliItems == 2
MaxSpawn == 2

CmdQuoted == <<"e", "c", "h", "o", " ", "'", "a", " ", "b", "'">>
CmdApostrophe == <<"e", "c", "h", "o", " ", "i", "t", "'", "s">>
CmdEscaped == <<"l", "s", " ", "a", "\\", " ", "b">>

YNotify(label, cmd_str) == [YLeaf(label, cmd_str) EXCEPT !.notify = TRUE]

YHot(node, combo) == [node EXCEPT !.hotkey = <<combo>>]

KeyA == <<"a">>
KeyB == <<"b">>
KeyCtrlA == <<"C", "t", "r", "l", "+", "a">>

\* a menu with a submenu in a submenu; the key a is a hotkey at two levels
NavDoc ==
    << YHot(YLeaf(Lbl("A"), CmdLs), KeyA),
       YHot(YBranch(Lbl("B"),
                    << YHot(YLeaf(Lbl("C"), CmdLs), KeyA),
                       YBranch(Lbl("D"), <<YLeaf(Lbl("E"), CmdLs)>>),
                       YHot(YLeaf(Lbl("F"), CmdLs), KeyCtrlA) >>), KeyB) >>

\* commands that carry quoting characters, and an item that reports its output
MenuDoc ==
    << YLeaf(Lbl("Q"), CmdQuoted), YLeaf(Lbl("P"), CmdApostrophe),
       YLeaf(Lbl("F"), CmdEscaped), YNotify(Lbl("N"), CmdLs) >>

\* a menu with a denied command two levels down
DeniedDoc ==
    << YLeaf(Lbl("A"), CmdLs),
       YBranch(Lbl("B"), << YLeaf(Lbl("C"), CmdLs),
                            YBranch(Lbl("D"), <<YLeaf(Lbl("E"), CmdRm)>>) >>) >>

\* a menu whose submenu item is bound to the Escape key
EscapeDoc ==
    << YLeaf(Lbl("A"), CmdLs),
       YHot(YBranch(Lbl("B"), <<YLeaf(Lbl("C"), CmdLs)>>), GDK_KEY_Escape) >>

ColorRed == <<"#", "f", "f", "0", "0", "0", "0">>
ColorGreen == <<"#", "0", "0", "f", "f", "0", "0">>
ColorBlue == <<"0", "0", "0", "0", "f", "f", "8", "0">>

YStyled(node, keys) == [node EXCEPT !.keys = keys]

\* a menu whose submenu item B has a background colour and whose item D,
\* inside B, has a hover colour
StyledDoc ==
    << YLeaf(Lbl("A"), CmdLs),
       YStyled(YBranch(Lbl("B"),
                       << YLeaf(Lbl("C"), CmdLs),
                          YStyled(YBranch(Lbl("D"), <<YLeaf(Lbl("E"), CmdLs)>>),
                                  "hover-color" :> ColorGreen) >>),
               "background-color" :> ColorRed) >>

\* the same menu in a file that also sets a global hover colour
StyledFile == [YamlFile(1024, StyledDoc) EXCEPT !.keys = "hover-color" :> ColorBlue]

MainNodes ==
    { YLeaf(Lbl("A"), CmdLs), YLeaf(Lbl("A"), CmdRm), YLeaf(Lbl("A"), <<>>),
      YBranch(Lbl("B"), <<>>), YBranch(Lbl("B"), <<YLeaf(Lbl("C"), CmdLs)>>),
      YBranch(Lbl("B"), <<YLeaf(Lbl("C"), CmdPipe)>>),
      YNode(Lbl("B"), CmdLs, TRUE, <<YLeaf(Lbl("C"), CmdLs)>>) }

\* a menu whose submenu item carries a blacklisted command of its own
BranchCommandDoc == << YNode(Lbl("B"), CmdRm, TRUE, <<YLeaf(Lbl("C"), CmdLs)>>) >>

MainDocs ==
    Str(MaxMainDoc, MainNodes) \cup {NavDoc, MenuDoc, DeniedDoc, EscapeDoc, BranchCommandDoc}

\* a menu of a leaf and a submenu in a file that asks for the auto-close
\* timer, with a time above the 60 seconds the loader allows
TimedDoc == << YLeaf(Lbl("A"), CmdLs), YBranch(Lbl("B"), <<YLeaf(Lbl("C"), CmdLs)>>) >>

TimedFile ==
    [YamlFile(1024, TimedDoc) EXCEPT !.keys = "auto-close-milliseconds" :> 70000]

MainFiles ==
    { YamlFile(1024, doc) : doc \in MainDocs } \cup {StyledFile, TimedFile, NoFile}

CliItems ==
    { <<"A", ":">> \o CmdLs, <<"A", ":">> \o CmdRm, <<"A", ":">> \o CmdPipe, <<"A">>,
      <<" ", "A", ":">> \o CmdQuoted \o <<" ">> }

RECURSIVE JoinItems(_)
JoinItems(seq) ==
    IF Len(seq) = 1 THEN Head(seq) ELSE Head(seq) \o <<";">> \o JoinItems(Tail(seq))

CliInputs == { JoinItems(seq) : seq \in Str(MaxCliItems, CliItems) \ {<<>>} }

\* what a command run by spawn_command_line_sync may report
ExitCodes == {0, 1}
Outputs == { <<>>, <<"o", "k">>, <<"i", "t", "'", "s">> }

InitMain ==
    /\ pc = "start"
    /\ \/ /\ cli_string \in CliInputs
          /\ filepath = <<>>
          /\ file = NoFile
       \/ /\ cli_string = <<>>
          /\ filepath = ConfigYaml
          /\ file \in MainFiles
    /\ path_allowed = FALSE
    /\ config = DefaultConfig
    /\ parse_attempted = FALSE
    /\ diag = <<>>
    /\ valid = FALSE
    /\ IdlePolicy
    /\ IdleMenu
    /\ IdleExec

\* main: g_config = RadialConfig::from_command_line(cli_config)
FromCommandLine ==
    /\ pc = "start"
    /\ cli_string # <<>>
    /\ config' = from_command_line(cli_string)
    /\ pc' = "loaded"
    /\ UNCHANGED <<execVars, policyVars, filepath, file, path_allowed, cli_string,
                   parse_attempted, diag, valid, menuVars>>

\* main: validate() failed, return 1 before the application exists
ExitInvalid ==
    /\ pc = "validated"
    /\ ~valid
    /\ pc' = "exited"
    /\ UNCHANGED <<execVars, policyVars, loadVars, menuVars>>

\* main: app.run(); on_activate constructs the RadialMenu over g_config
\* and presents it
Activate ==
    /\ pc = "validated"
    /\ valid
    /\ menu_stack' = <<config.items>>
    /\ current_menu_path' = <<>>
    /\ is_closing' = FALSE
    /\ hovered_button' = -1
    /\ item_hotkeys' = build_item_hotkeys(config.items)
    /\ hotkey_map' = build_hotkey_map(config.items)
    /\ window' = "shown"
    /\ auto_close_timer' = (config.auto_close_milliseconds > 0)
    /\ pc' = "running"
    /\ UNCHANGED <<execVars, policyVars, loadVars, last_event, dispatched, spawned>>

current_items == IF menu_stack = <<>> THEN <<>> ELSE menu_stack[Len(menu_stack)]

\* menu_stack_.size() > 1, the test of on_click, on_key_press and pop_menu
can_go_back_mut == Len(menu_stack) >= 1

can_go_back == Len(menu_stack) > 1

\* RadialMenu::push_menu, with start_open_animation clearing is_closing_
push_menu_mut(submenu, label) ==
    /\ menu_stack' = [menu_stack EXCEPT ![Len(menu_stack)] = submenu]
    /\ current_menu_path' =
          IF label # <<>> THEN Append(current_menu_path, label) ELSE current_menu_path
    /\ hovered_button' = -1
    /\ item_hotkeys' = build_item_hotkeys(submenu)
    /\ hotkey_map' = build_hotkey_map(submenu)
    /\ is_closing' = FALSE
    /\ UNCHANGED <<dispatched, spawned, diag>>

push_menu(submenu, label) ==
    /\ menu_stack' = Append(menu_stack, submenu)
    /\ current_menu_path' =
          IF label # <<>> THEN Append(current_menu_path, label) ELSE current_menu_path
    /\ hovered_button' = -1
    /\ item_hotkeys' = build_item_hotkeys(submenu)
    /\ hotkey_map' = build_hotkey_map(submenu)
    /\ is_closing' = FALSE
    /\ UNCHANGED <<dispatched, spawned, diag>>

\* what an input handler leaves alone when it changes nothing of the menu
menu_unchanged ==
    UNCHANGED <<menu_stack, current_menu_path, is_closing, hovered_button,
                item_hotkeys, hotkey_map, dispatched, spawned, diag>>

pop_menu_keeps_path ==
    IF can_go_back
    THEN /\ menu_stack' = SubSeq(menu_stack, 1, Len(menu_stack) - 1)
         /\ hovered_button' = -1
         /\ item_hotkeys' = build_item_hotkeys(current_items')
         /\ hotkey_map' = build_hotkey_map(current_items')
         /\ is_closing' = FALSE
         /\ UNCHANGED <<current_menu_path, dispatched, spawned, diag>>
    ELSE menu_unchanged

\* RadialMenu::pop_menu
pop_menu_mut ==
    IF can_go_back
    THEN /\ menu_stack' = SubSeq(menu_stack, 1, Len(menu_stack) - 1)
         /\ current_menu_path' =
               IF current_menu_path # <<>>
               THEN SubSeq(current_menu_path, 1, Len(current_menu_path) - 1)
               ELSE current_menu_path
         /\ hovered_button' = -1
         /\ UNCHANGED <<item_hotkeys, hotkey_map>>
         /\ is_closing' = FALSE
         /\ UNCHANGED <<dispatched, spawned, diag>>
    ELSE menu_unchanged

pop_menu ==
    IF can_go_back
    THEN /\ menu_stack' = SubSeq(menu_stack, 1, Len(menu_stack) - 1)
         /\ current_menu_path' =
               IF current_menu_path # <<>>
               THEN SubSeq(current_menu_path, 1, Len(current_menu_path) - 1)
               ELSE current_menu_path
         /\ hovered_button' = -1
         /\ item_hotkeys' = build_item_hotkeys(current_items')
         /\ hotkey_map' = build_hotkey_map(current_items')
         /\ is_closing' = FALSE
         /\ UNCHANGED <<dispatched, spawned, diag>>
    ELSE menu_unchanged

\* RadialMenu::start_close_animation, called by a handler that does nothing else
start_close_animation ==
    /\ is_closing' = TRUE
    /\ UNCHANGED <<menu_stack, current_menu_path, hovered_button, item_hotkeys,
                   hotkey_map, dispatched, spawned, diag>>

\* the command line of the notification: "notify-send '" + label + "' '" + stdout + "'"
notify_cmd(label, out) ==
    <<"n", "o", "t", "i", "f", "y", "-", "s", "e", "n", "d", " ", "'">>
    \o label \o <<"'", " ", "'">> \o out \o <<"'">>

\* one call of Glib::spawn_command_line_sync / _async: a command line that
\* g_shell_parse_argv rejects raises Glib::ShellError, a program that cannot
\* be started raises Glib::SpawnError, otherwise the process is created
Launch(mode, command_line, started) ==
    IF ~g_shell_parse_argv(command_line).ok
    THEN [raised |-> "ShellError", processes |-> <<>>]
    ELSE IF ~started THEN [raised |-> "SpawnError", processes |-> <<>>]
    ELSE [raised |-> "none", processes |-> <<Spawn(mode, command_line)>>]

\* what execute_command writes to std::cerr, and what glibmm logs for an
\* exception that leaves a signal handler
FailedToExecute == "Failed to execute command"
CommandFailed == "Command failed"
UnhandledException == "unhandled exception (type Glib::Error) in signal handler"

\* the statements of execute_command between record_usage and
\* start_close_animation: the processes created, the lines written, and
\* whether an exception left the function (only Glib::SpawnError is caught)
run_item(item, started, notify_started, exit_code, out) ==
    LET first == Launch(IF item.notify THEN "sync" ELSE "async", item.command, started)
        notifies == item.notify /\ first.raised = "none" /\ exit_code = 0 /\ out # <<>>
        second == IF notifies
                  THEN Launch("async", notify_cmd(item.label, out), notify_started)
                  ELSE [raised |-> "none", processes |-> <<>>]
        raised == IF first.raised # "none" THEN first.raised ELSE second.raised
    IN  [processes |-> first.processes \o second.processes,
         escaped |-> raised = "ShellError",
         errors |-> IF raised = "ShellError" THEN <<UnhandledException>>
                    ELSE IF raised = "SpawnError" THEN <<FailedToExecute>>
                    ELSE IF item.notify /\ ~notifies /\ exit_code # 0
                    THEN <<CommandFailed>>
                    ELSE <<>>]

\* RadialMenu::execute_command; started, notify_started, exit_code and out
\* are what the operating system and the command answer
execute_command(item, started, notify_started, exit_code, out) ==
    IF item.command = <<>>
    THEN menu_unchanged
    ELSE LET done == run_item(item, started, notify_started, exit_code, out)
         IN  /\ dispatched' = Append(dispatched, [label |-> item.label,
                                                  command |-> item.command,
                                                  menu_path |-> current_menu_path])
             /\ spawned' = spawned \o done.processes
             /\ diag' = diag \o done.errors
             /\ is_closing' = (IF done.escaped THEN is_closing ELSE TRUE)
             /\ UNCHANGED <<menu_stack, current_menu_path, hovered_button,
                            item_hotkeys, hotkey_map>>

\* on_click and on_key_press: the item is opened or run
activate_item(item, started, notify_started, exit_code, out) ==
    IF has_submenu(item)
    THEN push_menu(item.submenu, item.label)
    ELSE execute_command(item, started, notify_started, exit_code, out)

\* what the operating system and the command may answer when an item is
\* run; only an item with notify waits for the exit code and the output
Answers(item) ==
    IF item.notify
    THEN [started : BOOLEAN, notify_started : BOOLEAN,
          exit_code : ExitCodes, out : Outputs]
    ELSE [started : BOOLEAN, notify_started : {FALSE}, exit_code : {0}, out : {<<>>}]

\* the item at an index of the displayed level is opened or run, with any
\* answer of the system; at most MaxSpawn commands are run
any_activation(index) ==
    LET item == current_items[index + 1]
    IN  IF has_submenu(item) THEN activate_item(item, FALSE, FALSE, 0, <<>>)
        ELSE /\ Len(dispatched) < MaxSpawn
             /\ \E answer \in Answers(item) :
                   activate_item(item, answer.started, answer.notify_started,
                                 answer.exit_code, answer.out)

Open == window = "shown"

\* RadialMenu::on_click on the ring: get_button_at_pos gives a button
OnClickButton ==
    /\ Open
    /\ \E button \in 0..(Len(current_items) - 1) : any_activation(button)
    /\ last_event' = "click"
    /\ UNCHANGED <<pc, execVars, policyVars, configVars, window, auto_close_timer>>

\* RadialMenu::on_click inside the centre circle
OnClickCenter ==
    /\ Open
    /\ IF can_go_back THEN pop_menu ELSE menu_unchanged
    /\ last_event' = "center"
    /\ UNCHANGED <<pc, execVars, policyVars, configVars, window, auto_close_timer>>

\* RadialMenu::on_click outside the ring
OnClickOutside ==
    /\ Open
    /\ start_close_animation
    /\ last_event' = "outside"
    /\ UNCHANGED <<pc, execVars, policyVars, configVars, window, auto_close_timer>>

\* RadialMenu::on_key_press: hotkeys first, then Escape, then Return
on_key_press(keyval, state) ==
    LET found == { index \in find_item(keyval, state) : index < Len(current_items) }
    IN  IF found # {}
        THEN \E index \in found : any_activation(index)
        ELSE IF keyval = GDK_KEY_Escape
        THEN IF can_go_back THEN pop_menu ELSE start_close_animation
        ELSE IF keyval = GDK_KEY_Return
        THEN IF hovered_button >= 0 /\ hovered_button < Len(current_items)
             THEN any_activation(hovered_button)
             ELSE menu_unchanged
        ELSE menu_unchanged

ModifierStates == {{}, {"CONTROL"}}
LetterKeys == {<<"a">>, <<"b">>, <<"A">>}

\* on_key_press for a letter key
OnKeyHotkey ==
    /\ Open
    /\ \E keyval \in LetterKeys, state \in ModifierStates : on_key_press(keyval, state)
    /\ last_event' = "hotkey"
    /\ UNCHANGED <<pc, execVars, policyVars, configVars, window, auto_close_timer>>

\* on_key_press for the Escape key
OnKeyEscape ==
    /\ Open
    /\ on_key_press(GDK_KEY_Escape, {})
    /\ last_event' = "escape"
    /\ UNCHANGED <<pc, execVars, policyVars, configVars, window, auto_close_timer>>

\* on_key_press for the Return key
OnKeyReturn ==
    /\ Open
    /\ on_key_press(GDK_KEY_Return, {})
    /\ last_event' = "enter"
    /\ UNCHANGED <<pc, execVars, policyVars, configVars, window, auto_close_timer>>

\* RadialMenu::on_motion: get_button_at_pos gives -1 or a button; with no
\* item on the level the angle is divided by infinity and the button is 0
OnMotion ==
    /\ Open
    /\ hovered_button' \in -1..(IF current_items = <<>> THEN 0 ELSE Len(current_items) - 1)
    /\ UNCHANGED <<pc, execVars, policyVars, configVars, window, menu_stack, current_menu_path,
                   is_closing, item_hotkeys, last_event, hotkey_map, dispatched, spawned, diag,
                   auto_close_timer>>

\* 2^64 modulo n, for the size_t arithmetic of on_scroll
TwoPow64Mod(n) ==
    LET r == 65536 % n IN (((r * r) % n) * ((r * r) % n)) % n

\* a value of type size_t modulo n, v being the mathematical value
size_t_mod(v, n) == IF v >= 0 THEN v % n ELSE (TwoPow64Mod(n) + v) % n

\* RadialMenu::on_scroll
OnScroll ==
    /\ Open
    /\ LET num_items == Len(current_items)
       IN  IF num_items = 0 THEN UNCHANGED hovered_button
           ELSE \/ hovered_button' = size_t_mod(hovered_button + 1, num_items)
                \/ hovered_button' = size_t_mod(hovered_button - 1 + num_items, num_items)
    /\ UNCHANGED <<pc, execVars, policyVars, configVars, window, menu_stack, current_menu_path,
                   is_closing, item_hotkeys, last_event, hotkey_map, dispatched, spawned, diag,
                   auto_close_timer>>

\* the closing branch of on_animation_tick taken after the animation time:
\* close(), and the application ends with its last window
close_window ==
    /\ window' = "closed"
    /\ pc' = "exited"

\* RadialMenu::on_animation_tick while closing
OnAnimationTick ==
    /\ Open
    /\ is_closing
    /\ \E elapsed_done \in BOOLEAN :
          IF elapsed_done THEN close_window ELSE UNCHANGED <<window, pc>>
    /\ UNCHANGED <<execVars, policyVars, loadVars, menu_stack, current_menu_path,
                   is_closing, hovered_button, item_hotkeys, hotkey_map, last_event,
                   dispatched, spawned, auto_close_timer>>

\* RadialMenu::on_auto_close_timeout, called every 100 ms while it returns
\* true; the time since the last activity has reached the limit or not
OnAutoCloseTimeout ==
    /\ Open
    /\ auto_close_timer
    /\ \E elapsed_done \in BOOLEAN :
          IF config.auto_close_milliseconds <= 0
          THEN /\ auto_close_timer' = FALSE
               /\ menu_unchanged
          ELSE IF elapsed_done
          THEN /\ auto_close_timer' = FALSE
               /\ start_close_animation
          ELSE /\ UNCHANGED auto_close_timer
               /\ menu_unchanged
    /\ UNCHANGED <<pc, execVars, policyVars, configVars, window, last_event>>

Next ==
    \/ FromYaml
    \/ FromCommandLine
    \/ Validate
    \/ ExitInvalid
    \/ Activate
    \/ OnClickButton
    \/ OnClickCenter
    \/ OnClickOutside
    \/ OnKeyHotkey
    \/ OnKeyEscape
    \/ OnKeyReturn
    \/ OnMotion
    \/ OnScroll
    \/ OnAnimationTick
    \/ OnAutoCloseTimeout

Spec == InitMain /\ [][Next]_vars

-----------------------------------------------------------------------------
(* Claims on the command policy (SpecPolicy) *)

ClaimedSequences ==
    { <<"|">>, <<">">>, <<">", ">">>, <<"<">>, <<"&">>, <<";">>, <<"$", "(">>,
      <<"BACKTICK">>, <<"$", "{">>, <<"&", "&">>, <<"|", "|">> }

HasClaimedSequence(s) == \E p \in ClaimedSequences : Contains(s, p)

\* C3: every command that contains one of | > >> < & ; $( ` ${ && || is
\* reported by has_dangerous_patterns, whatever is_blacklisted says of it, and
\* a configuration that carries it on a leaf does not pass validate.
C3_PatternAlwaysRejected ==
    (pc \in {"classified", "validated"} /\ HasClaimedSequence(command))
        => /\ pattern_hit
           /\ pc = "validated" => ~valid

\* a command substitution behind a program name that the name check lets through
C3_Witness ==
    /\ pc = "validated"
    /\ Contains(command, <<"$", "(">>)
    /\ ~name_hit
    /\ pattern_hit
    /\ ~valid

WhiteSpace == {" ", "\t", "\n", "\r"}

\* the first whitespace-delimited token of s, directory prefix stripped
FirstTokenBaseName(s) ==
    LET start == find_first_not_of(s, WhiteSpace)
        rest == IF start = npos THEN <<>> ELSE SubFrom(s, start)
        stop == find_first_of(rest, WhiteSpace)
        token == IF stop = npos THEN rest ELSE SubSeq(rest, 1, stop - 1)
        slash == find_last_of(token, {"/", "\\"})
    IN  IF slash = npos THEN token ELSE SubFrom(token, slash + 1)

\* C4: is_blacklisted rejects a command exactly when its first
\* whitespace-delimited token, directory prefix stripped, is an entry of the
\* deny-set (compared case-sensitively).
C4_NameCheckExact ==
    pc = "classified" => (name_hit <=> FirstTokenBaseName(command) \in blacklisted_commands_)

-----------------------------------------------------------------------------
(* Claims on the path gate (SpecPath) *)

\* the weakly-canonical form of p as a location: a form that is still
\* relative (nothing of p exists) is taken from the working directory
CanonicalLocation(p) ==
    LET c == weakly_canonical(p)
    IN  IF c.abs THEN c.comps ELSE LexNormal(TRUE, Cwd, c.comps).comps

\* loc is root itself or lies below it, component by component
LiesWithin(loc, root) ==
    /\ Len(root) <= Len(loc)
    /\ \A i \in 1..Len(root) : loc[i] = root[i]

OutsideBothRoots(p) ==
    /\ ~LiesWithin(CanonicalLocation(p), <<NameH, NameConfig, NameRadux>>)
    /\ ~LiesWithin(CanonicalLocation(p), Cwd)

\* C5: a path whose weakly-canonical form lies outside ~/.config/radux and
\* outside the working directory is refused by is_config_path_allowed, and
\* from_yaml loads nothing from it (no parse, no items).
C5_OutsidePathsRefused ==
    (pc \in {"loaded", "validated"} /\ OutsideBothRoots(filepath))
        => /\ ~path_allowed
           /\ ~parse_attempted
           /\ config.items = <<>>

\* a path that begins inside the working directory, leaves it through ".."
\* and names a well-formed configuration file that exists
C5_Witness ==
    /\ pc = "loaded"
    /\ filepath.abs
    /\ LiesWithin(filepath.comps, Cwd)
    /\ \E i \in 1..Len(filepath.comps) : filepath.comps[i] = DotDot
    /\ OutsideBothRoots(filepath)
    /\ file = SmallFile
    /\ ~path_allowed
    /\ config.items = <<>>

-----------------------------------------------------------------------------
(* Claims on the bounded parser (SpecLoad) *)

Loaded == pc \in {"loaded", "validated"}

\* the file is a regular file that YAML::LoadFile reads without error
Readable(f) == f.exists /\ ~f.is_dir /\ f.syntax_ok /\ ~f.top_conv_error /\ f.has_items

\* C6: a file larger than MAX_CONFIG_FILE_SIZE is refused before any YAML
\* parsing, from_yaml returns no items and validate fails; a file of exactly
\* MAX_CONFIG_FILE_SIZE bytes is parsed.
C6_OversizedFileRefused ==
    /\ (Loaded /\ file.exists /\ ~file.is_dir /\ file.size > MAX_CONFIG_FILE_SIZE)
          => /\ ~parse_attempted
             /\ config.items = <<>>
             /\ pc = "validated" => ~valid
    /\ (Loaded /\ file.exists /\ ~file.is_dir /\ file.size = MAX_CONFIG_FILE_SIZE)
          => parse_attempted

\* one byte over the limit, holding a document that would load and validate
C6_Witness ==
    /\ pc = "validated"
    /\ file.size = MAX_CONFIG_FILE_SIZE + 1
    /\ file.items = <<YLeaf(Lbl("A"), CmdLs)>>
    /\ Readable(file)
    /\ ~parse_attempted
    /\ ~valid

\* every node labelled, every leaf with a command, every field convertible
RECURSIVE CleanLevel(_)
CleanLevel(nodes) ==
    \A i \in 1..Len(nodes) :
        /\ nodes[i].has_label
        /\ nodes[i].label # <<>>
        /\ ~nodes[i].conv_error
        /\ IF nodes[i].has_submenu
           THEN nodes[i].submenu # <<>> /\ nodes[i].command = <<>>
                /\ CleanLevel(nodes[i].submenu)
           ELSE nodes[i].command # <<>>

\* the widest level of a document
RECURSIVE YWidth(_)
YWidth(nodes) ==
    Max({Len(nodes)} \cup {YWidth(nodes[i].submenu) : i \in 1..Len(nodes)})

\* the number of levels of a document / of a tree of items
RECURSIVE YHeight(_)
YHeight(nodes) ==
    IF nodes = <<>> THEN 0
    ELSE 1 + Max({YHeight(nodes[i].submenu) : i \in 1..Len(nodes)})

\* the document with every node at depth >= MAX_YAML_DEPTH removed, as items
RECURSIVE CutLevel(_, _)
CutLevel(nodes, depth) ==
    IF depth >= MAX_YAML_DEPTH THEN <<>>
    ELSE [i \in 1..Len(nodes) |->
            [label |-> nodes[i].label, description |-> <<>>,
             command |-> nodes[i].command, notify |-> nodes[i].notify,
             hotkey |-> nodes[i].hotkey, theme_override |-> <<>>,
             submenu |-> CutLevel(nodes[i].submenu, depth + 1)]]

\* the number of nodes of a document / of a tree of items
RECURSIVE NodeCount(_)
NodeCount(level) ==
    IF level = <<>> THEN 0
    ELSE 1 + NodeCount(Head(level).submenu) + NodeCount(Tail(level))

RECURSIVE AllLevelsCapped(_)
AllLevelsCapped(items) ==
    /\ Len(items) <= MAX_MENU_ITEMS
    /\ \A i \in 1..Len(items) : AllLevelsCapped(items[i].submenu)

ValidLeafNode(n) == n.has_label /\ n.label # <<>> /\ ~n.conv_error /\ n.command # <<>>

ValidBefore(nodes, i) == Len(SelectSeq(SubSeq(nodes, 1, i - 1), ValidLeafNode))

\* a level of leaf nodes in which no node that does not convert comes
\* before the cap is reached
FlatLevel(nodes) ==
    \A i \in 1..Len(nodes) :
        /\ ~nodes[i].has_submenu
        /\ (nodes[i].conv_error /\ nodes[i].has_label)
              => ValidBefore(nodes, i) >= MAX_MENU_ITEMS

\* the first MAX_MENU_ITEMS valid nodes of a flat level, as items
FirstValid(nodes) ==
    LET ok == SelectSeq(nodes, ValidLeafNode)
        kept == IF Len(ok) > MAX_MENU_ITEMS THEN SubSeq(ok, 1, MAX_MENU_ITEMS) ELSE ok
    IN  [i \in 1..Len(kept) |->
            [label |-> kept[i].label, description |-> <<>>, command |-> kept[i].command,
             notify |-> kept[i].notify, hotkey |-> kept[i].hotkey,
             theme_override |-> <<>>, submenu |-> <<>>]]

RECURSIVE AllLs(_)
AllLs(nodes) ==
    \A i \in 1..Len(nodes) :
        IF nodes[i].has_submenu THEN AllLs(nodes[i].submenu) ELSE nodes[i].command = CmdLs

\* C9: a parsed tree of more than MAX_TOTAL_ITEMS nodes is discarded as a
\* whole and validate fails, though no level exceeds MAX_MENU_ITEMS; a tree
\* of exactly MAX_TOTAL_ITEMS nodes is kept and validates.
C9_TotalCountDiscardsTree ==
    (/\ Loaded /\ Readable(file) /\ parse_attempted
     /\ CleanLevel(file.items)
     /\ YWidth(file.items) <= MAX_MENU_ITEMS
     /\ YHeight(file.items) <= MAX_YAML_DEPTH)
        => IF NodeCount(file.items) > MAX_TOTAL_ITEMS
           THEN /\ config.items = <<>>
                /\ pc = "validated" => ~valid
           ELSE /\ NodeCount(config.items) = NodeCount(file.items)
                /\ (pc = "validated" /\ file.items # <<>> /\ AllLs(file.items)) => valid

\* 4 branches of 49 leaves and one more leaf: 201 nodes, no level over 50
C9_Witness ==
    /\ pc = "validated"
    /\ Readable(file) /\ parse_attempted
    /\ NodeCount(file.items) = MAX_TOTAL_ITEMS + 1
    /\ YWidth(file.items) < MAX_MENU_ITEMS
    /\ config.items = <<>>
    /\ ~valid

\* C10: when from_yaml fails while the items are being parsed, the
\* configuration it returns holds no items.
C10_FailedLoadLeavesNoItems ==
    (Loaded /\ parse_attempted /\ diag = <<"Error loading YAML">>) => config.items = <<>>

-----------------------------------------------------------------------------
(* Claims on the whole run (Spec) *)

\* the commands of the items that can be run: items without a submenu
RECURSIVE LeafCommands(_)
LeafCommands(items) ==
    IF items = <<>> THEN {}
    ELSE (IF Head(items).submenu = <<>> THEN {Head(items).command}
          ELSE LeafCommands(Head(items).submenu))
         \cup LeafCommands(Tail(items))

\* C1: every process the menu starts for the command of a leaf, in sync
\* mode and in detached mode, is created without a shell and with the
\* literal argument vector: the configured program followed by the
\* arguments as written in the command, unchanged and in order.
C1_LiteralArgumentVector ==
    \A k \in 1..Len(spawned) :
        spawned[k].command_line \in LeafCommands(config.items) =>
            /\ ~spawned[k].via_shell
            /\ spawned[k].argv =
                  <<parse_command(spawned[k].command_line).base_cmd>>
                  \o parse_command(spawned[k].command_line).args

Rejected(cmd_str) == is_blacklisted(cmd_str) \/ has_dangerous_patterns(cmd_str)

HasRejectedLeaf(items) == \E cmd_str \in LeafCommands(items) : Rejected(cmd_str)

\* C2: when a leaf at any depth of the loaded tree has a command that is
\* name-blacklisted or holds a dangerous pattern, validate returns false and
\* the program exits without a window, a menu or a process; the loaded
\* tree is never changed after the load, so no leaf is removed to let the
\* rest be shown. The configuration comes from a YAML file or from --cli.
C2_RejectedLeafFailsClosed ==
    /\ [](HasRejectedLeaf(config.items) =>
            /\ pc \in {"validated", "exited"} => ~valid
            /\ pc # "running"
            /\ window = "none"
            /\ menu_stack = <<>>
            /\ spawned = <<>>)
    /\ [][pc # "start" => config' = config]_vars

C2_Witness ==
    /\ pc = "exited"
    /\ ~valid
    /\ window = "none"
    /\ \E i \in 1..Len(config.items) :
          /\ has_submenu(config.items[i])
          /\ HasRejectedLeaf(config.items[i].submenu)
          /\ \A j \in 1..Len(config.items) :
                j # i => ~HasRejectedLeaf(<<config.items[j]>>)

\* every node of a tree, at every depth
RECURSIVE TreeNodes(_)
TreeNodes(items) ==
    IF items = <<>> THEN {}
    ELSE {Head(items)} \cup TreeNodes(Head(items).submenu) \cup TreeNodes(Tail(items))

Accepted == pc \in {"validated", "running", "exited"} /\ valid

\* C11: every node of a configuration that passed load and validate, from
\* YAML or from --cli, has a non-empty label and a non-empty command or a
\* non-empty child sequence; a node with neither is never in the tree.
C11_NoNodeWithoutCommandAndChildren ==
    Accepted =>
        \A node \in TreeNodes(config.items) :
            /\ node.label # <<>>
            /\ node.command # <<>> \/ node.submenu # <<>>

\* C12: no node of a loaded tree has a non-empty command and a non-empty
\* child sequence at the same time.
C12_NoNodeIsLeafAndBranch ==
    pc # "start" =>
        \A node \in TreeNodes(config.items) :
            ~(node.command # <<>> /\ node.submenu # <<>>)

\* C13: navigation round trip. Whenever the stack of a shown menu changes,
\* either a branch item B of the displayed level L was entered, and then
\* the displayed level is exactly B's children in their order on top of
\* the unchanged stack, or the top was left, and then the displayed level
\* and the stack are exactly what they were before that level was entered.
C13_PushPopRoundTrip ==
    [][(Open /\ menu_stack' # menu_stack) =>
          \/ /\ \E i \in 1..Len(current_items) :
                   /\ has_submenu(current_items[i])
                   /\ current_items' = current_items[i].submenu
             /\ menu_stack' = Append(menu_stack, current_items')
          \/ /\ Len(menu_stack) > 1
             /\ menu_stack = Append(menu_stack', current_items)
             /\ current_items' = menu_stack[Len(menu_stack) - 1]]_vars

C13_Witness ==
    /\ Open
    /\ last_event = "center"
    /\ Len(menu_stack) = 2
    /\ menu_stack[1] = config.items
    /\ Len(current_items) >= 2
    /\ \E i \in 1..Len(config.items) : config.items[i].submenu = current_items

\* C14 as stated: once the window exists the stack has at least one entry
\* and its bottom entry is the root item list; a back request at depth 1
\* leaves the stack unchanged; the Escape key at depth 1 leaves the stack
\* unchanged and starts closing.
C14_RootEntryStays ==
    /\ [](window # "none" => Len(menu_stack) >= 1 /\ menu_stack[1] = config.items)
    /\ [][(OnClickCenter /\ Len(menu_stack) = 1) => menu_stack' = menu_stack]_vars
    /\ [][(OnKeyEscape /\ Len(menu_stack) = 1) =>
             menu_stack' = menu_stack /\ is_closing']_vars

\* no hotkey of the displayed level is bound to the Escape key
EscapeIsFree == find_item(GDK_KEY_Escape, {}) = {}

\* C14, amended: the same, the Escape key at depth 1 starting the close only
\* when no item of the displayed level has Escape as its hotkey (hotkeys
\* are looked up before Escape is handled).
C14_RootEntryStaysEscapeFree ==
    /\ [](window # "none" => Len(menu_stack) >= 1 /\ menu_stack[1] = config.items)
    /\ [][(OnClickCenter /\ Len(menu_stack) = 1) => menu_stack' = menu_stack]_vars
    /\ [][(OnKeyEscape /\ Len(menu_stack) = 1 /\ EscapeIsFree) =>
             menu_stack' = menu_stack /\ is_closing']_vars

C14_Witness ==
    /\ Open
    /\ last_event = "escape"
    /\ Len(menu_stack) = 1
    /\ menu_stack[1] = config.items
    /\ EscapeIsFree
    /\ is_closing
    /\ \E i \in 1..Len(current_items) : has_submenu(current_items[i])

\* the animation tick registered by start_close_animation keeps firing
FairSpec == Spec /\ WF_vars(OnAnimationTick)

\* C15: every click on the button of a leaf item, at any depth, hands that
\* item's command to execute_command exactly once and starts the close
\* transition, and a menu that is closing closes.
C15_LeafRunsOnceThenCloses ==
    /\ [][\A button \in 0..(Len(current_items) - 1) :
             (/\ Open
              /\ ~has_submenu(current_items[button + 1])
              /\ last_event' = "click"
              /\ any_activation(button)) =>
                 /\ Len(dispatched') = Len(dispatched) + 1
                 /\ dispatched'[Len(dispatched')].command = current_items[button + 1].command
                 /\ dispatched'[Len(dispatched')].command # <<>>
                 /\ is_closing']_vars
    /\ (Open /\ is_closing) ~> (window = "closed")

AllKeys == LetterKeys \cup {GDK_KEY_Escape, GDK_KEY_Return}

\* C16: while the window is shown the hotkey table is the one built from
\* the level at the top of the stack, and a key press resolves only to an
\* item of the displayed level whose own hotkey matches the key.
C16_HotkeysOfDisplayedLevel ==
    Open =>
        /\ item_hotkeys = build_item_hotkeys(current_items)
        /\ hotkey_map = build_hotkey_map(current_items)
        /\ \A keyval \in AllKeys, state \in ModifierStates :
              \A index \in find_item(keyval, state) :
                 /\ index < Len(current_items)
                 /\ current_items[index + 1].hotkey # <<>>
                 /\ matches(from_string(current_items[index + 1].hotkey[1]), keyval, state)

\* the key a was pressed at depth 2 and ran the item of that level, while
\* the root level binds the same key to another item
C16_Witness ==
    /\ Open
    /\ Len(menu_stack) = 2
    /\ last_event = "hotkey"
    /\ dispatched # <<>>
    /\ \E i \in 1..Len(current_items) :
          /\ current_items[i].hotkey = <<KeyA>>
          /\ dispatched[Len(dispatched)].label = current_items[i].label
          /\ dispatched[Len(dispatched)].menu_path = current_menu_path
    /\ \E j \in 1..Len(menu_stack[1]) :
          /\ menu_stack[1][j].hotkey = <<KeyA>>
          /\ menu_stack[1][j].label # dispatched[Len(dispatched)].label

-----------------------------------------------------------------------------
(* SpecAsync: one call of SafeExecutor::execute_async, process by process.  *)
(* The caller forks a child and waits for it; the child forks a grandchild  *)
(* and exits; the grandchild redirects its standard descriptors and calls   *)
(* execve. Every system call that can fail is a choice between its          *)
(* outcomes. The standard descriptors the host was started with are either  *)
(* open or closed; open() returns the lowest free descriptor.               *)

StdFds == {0, 1, 2}

HostStdio == [StdFds -> {"host", "closed"}]

Programs == { <<"/", "b", "i", "n", "/", "l", "s">>, <<"l", "s">> }

ProgramArgs == { <<>>, << <<"-", "l">> >> }

AsyncStart(stdio, program, args) ==
    [ parent |-> "called", result |-> FALSE, stdio |-> stdio,
      command |-> program, args |-> args,
      child |-> "none", child_status |-> 0,
      grandchild |-> "none", grandchild_parent |-> "none", fds |-> stdio,
      argv |-> <<>>, program_status |-> -1 ]

InitAsync ==
    /\ pc = "start"
    /\ IdlePolicy
    /\ IdleLoad
    /\ IdleMenu
    /\ IdleSync
    /\ IdleStartup
    /\ detached \in { AsyncStart(stdio, program, args) :
                        stdio \in HostStdio, program \in Programs, args \in ProgramArgs }

\* the descriptor open() returns: the lowest one not in use
lowest_free(fds) ==
    IF \E fd \in StdFds : fds[fd] = "closed"
    THEN Min({ fd \in StdFds : fds[fd] = "closed" })
    ELSE 3

\* open("/dev/null"), the three dup2 calls and close(devnull)
redirect_stdio(fds, opened) ==
    IF ~opened THEN fds
    ELSE LET devnull == lowest_free(fds)
             dupped == [fd \in StdFds |-> "null"]
         IN  IF devnull \in StdFds THEN [dupped EXCEPT ![devnull] = "closed"]
             ELSE dupped

\* pid_t pid = fork(); if (pid == -1) return false;
AsyncFork ==
    /\ detached.parent = "called"
    /\ \E forked \in BOOLEAN :
          detached' = IF forked
                      THEN [detached EXCEPT !.parent = "waiting", !.child = "running"]
                      ELSE [detached EXCEPT !.parent = "returned", !.result = FALSE]
    /\ UNCHANGED <<pc, policyVars, loadVars, menuVars, piped, startup>>

\* child: pid_t grandchild = fork(); if (grandchild == -1) _exit(1);
ChildFork ==
    /\ detached.child = "running"
    /\ \E forked \in BOOLEAN :
          detached' = IF forked
                      THEN [detached EXCEPT !.child = "forked", !.grandchild = "started",
                                            !.grandchild_parent = "child"]
                      ELSE [detached EXCEPT !.child = "exited", !.child_status = 1]
    /\ UNCHANGED <<pc, policyVars, loadVars, menuVars, piped, startup>>

\* child: _exit(0); the grandchild is reparented
ChildExit ==
    /\ detached.child = "forked"
    /\ detached' = [detached EXCEPT !.child = "exited", !.child_status = 0,
                                    !.grandchild_parent = "init"]
    /\ UNCHANGED <<pc, policyVars, loadVars, menuVars, piped, startup>>

\* grandchild: argv is built, then the standard descriptors are redirected
GrandchildRedirect ==
    /\ detached.grandchild = "started"
    /\ \E opened \in BOOLEAN :
          detached' = [detached EXCEPT !.grandchild = "redirected",
                                       !.argv = <<detached.command>> \o detached.args,
                                       !.fds = redirect_stdio(detached.fds, opened)]
    /\ UNCHANGED <<pc, policyVars, loadVars, menuVars, piped, startup>>

\* grandchild: execve(command, argv, environ); _exit(127) when it returns
GrandchildExec ==
    /\ detached.grandchild = "redirected"
    /\ \E executed \in BOOLEAN :
          detached' = IF executed
                      THEN [detached EXCEPT !.grandchild = "program"]
                      ELSE [detached EXCEPT !.grandchild = "exited",
                                            !.program_status = 127]
    /\ UNCHANGED <<pc, policyVars, loadVars, menuVars, piped, startup>>

\* the launched program ends with a status of its own
ProgramExit ==
    /\ detached.grandchild = "program"
    /\ \E status \in ExitCodes :
          detached' = [detached EXCEPT !.grandchild = "exited", !.program_status = status]
    /\ UNCHANGED <<pc, policyVars, loadVars, menuVars, piped, startup>>

\* parent: waitpid(pid, &status, 0); return WIFEXITED && WEXITSTATUS == 0
AsyncReturn ==
    /\ detached.parent = "waiting"
    /\ detached.child = "exited"
    /\ detached' = [detached EXCEPT !.parent = "returned",
                                    !.result = (detached.child_status = 0)]
    /\ UNCHANGED <<pc, policyVars, loadVars, menuVars, piped, startup>>

NextAsync ==
    \/ AsyncFork
    \/ ChildFork
    \/ ChildExit
    \/ GrandchildRedirect
    \/ GrandchildExec
    \/ ProgramExit
    \/ AsyncReturn

SpecAsync == InitAsync /\ [][NextAsync]_vars

\* the caller and the short-lived child always take their next step; the
\* launched program may run for ever
FairSpecAsync ==
    SpecAsync /\ WF_vars(AsyncFork) /\ WF_vars(ChildFork) /\ WF_vars(ChildExit)
              /\ WF_vars(AsyncReturn)

AsyncReturned == detached.parent = "returned"

ProgramStarted == detached.grandchild = "program" \/ detached.program_status \in ExitCodes

\* the call returns whether or not the launched program ever exits
AsyncCallReturns == <>AsyncReturned

\* a call that returned true handed the program to a reparented grandchild
HandedOff ==
    (AsyncReturned /\ detached.result) =>
        (detached.grandchild # "none" /\ detached.grandchild_parent = "init")

\* the return value is fixed by the two forks alone
ResultIgnoresProgram == AsyncReturned => (detached.result <=> detached.grandchild # "none")

\* the launched program has /dev/null on stdin, stdout and stderr
StdioIsNull == ProgramStarted => \A fd \in StdFds : detached.fds[fd] = "null"

\* C17: a detached launch returns once the program is handed to a reparented
\* grandchild, its return value shows neither the program's exit status nor
\* an exec failure, and the program's stdin, stdout and stderr are the null
\* device.
C17_DetachedLaunch == HandedOff /\ ResultIgnoresProgram /\ StdioIsNull

-----------------------------------------------------------------------------
(* Claims about notifications and failed executions (specification Spec) *)

NotifySend == <<"n", "o", "t", "i", "f", "y", "-", "s", "e", "n", "d">>

\* the leaves of the displayed level paired with every answer of the system
Runs ==
    { run \in [item : { current_items[i] : i \in 1..Len(current_items) },
               answer : [started : BOOLEAN, notify_started : BOOLEAN,
                         exit_code : ExitCodes, out : Outputs]] :
        /\ ~has_submenu(run.item)
        /\ run.item.command # <<>>
        /\ run.answer \in Answers(run.item) }

\* this step is execute_command on the item with the answer
Ran(run) ==
    execute_command(run.item, run.answer.started, run.answer.notify_started,
                    run.answer.exit_code, run.answer.out)

\* the command of a notify item ran, exited with 0 and wrote something, and
\* notify-send can be started
Notifies(run) ==
    /\ run.item.notify
    /\ g_shell_parse_argv(run.item.command).ok
    /\ run.answer.started
    /\ run.answer.exit_code = 0
    /\ run.answer.out # <<>>
    /\ run.answer.notify_started

\* C18: the label and the captured output reach the notification command
\* escaped, so that whatever characters the output holds, notify-send is
\* started with exactly the label and the output as its two arguments.
C18_NotificationTextEscaped ==
    [][\A run \in Runs :
          (Notifies(run) /\ Ran(run)) =>
              /\ Len(spawned') = Len(spawned) + 2
              /\ spawned'[Len(spawned')].argv =
                     <<NotifySend, run.item.label, run.answer.out>>]_vars

\* the process of the item cannot be created, or it exits with a status
\* other than 0
ExecutionFails(run) ==
    \/ Launch("sync", run.item.command, run.answer.started).raised # "none"
    \/ run.item.notify /\ run.answer.exit_code # 0

\* C19: when a leaf command cannot be spawned or exits with a non-zero
\* status, a line is written to the diagnostic channel, the menu starts its
\* close transition, no notification is started, and the window is not
\* torn down by the failure.
C19_FailureReportedMenuCloses ==
    [][\A run \in Runs :
          (ExecutionFails(run) /\ Ran(run)) =>
              /\ Len(diag') = Len(diag) + 1
              /\ is_closing'
              /\ \A i \in (Len(spawned) + 1)..Len(spawned') :
                    spawned'[i].argv[1] # NotifySend
              /\ window' = window]_vars

-----------------------------------------------------------------------------
(* Drawing a button, and the style the configuration gives it *)

\* RadialMenu::draw_button: the colours button index is painted with; the
\* label is drawn by draw_text, which takes the global font colour
draw_button(index) ==
    LET item == current_items[index + 1]
        theme == get_effective_theme(item, config.theme)
    IN  [fill |-> IF index = hovered_button THEN theme.hover_color
                  ELSE theme.background_color,
         border |-> theme.border_color,
         text |-> config.theme.font_color]

\* the items are the nodes of the document, one for one
RECURSIVE SameShape(_, _)
SameShape(items, nodes) ==
    /\ Len(items) = Len(nodes)
    /\ \A i \in 1..Len(items) :
          /\ items[i].label = nodes[i].label
          /\ SameShape(items[i].submenu, nodes[i].submenu)

\* the style of a node: each colour from the node's own key when it has the
\* key, else the colour its parent is styled with
StyleOf(node, inherited) ==
    [background_color |-> IF HasKey(node.keys, "background-color")
                          THEN from_hex(node.keys["background-color"])
                          ELSE inherited.background_color,
     hover_color |-> IF HasKey(node.keys, "hover-color")
                     THEN from_hex(node.keys["hover-color"])
                     ELSE inherited.hover_color,
     border_color |-> IF HasKey(node.keys, "border-color")
                      THEN from_hex(node.keys["border-color"])
                      ELSE inherited.border_color,
     font_color |-> IF HasKey(node.keys, "font-color")
                    THEN from_hex(node.keys["font-color"])
                    ELSE inherited.font_color]

GlobalStyle ==
    [background_color |-> config.theme.background_color,
     hover_color |-> config.theme.hover_color,
     border_color |-> config.theme.border_color,
     font_color |-> config.theme.font_color]

\* the nodes of level k of the navigation stack and the style they inherit
RECURSIVE LevelNodes(_)
LevelNodes(k) ==
    IF k = 1 THEN [nodes |-> file.items, inherited |-> GlobalStyle]
    ELSE LET up == LevelNodes(k - 1)
             j == CHOOSE j \in 1..Len(menu_stack[k - 1]) :
                     /\ menu_stack[k - 1][j].label = current_menu_path[k - 1]
                     /\ menu_stack[k - 1][j].submenu = menu_stack[k]
         IN  [nodes |-> up.nodes[j].submenu,
              inherited |-> StyleOf(up.nodes[j], up.inherited)]

\* C20: every button of the displayed level is painted with the colours of
\* its own node where the node gives them, else with those of the nearest
\* ancestor that gives them, else with the global theme.
C20_StyleInherited ==
    (Open /\ file.exists /\ SameShape(config.items, file.items)) =>
        LET level == LevelNodes(Len(menu_stack))
        IN  \A index \in 0..(Len(current_items) - 1) :
               LET style == StyleOf(level.nodes[index + 1], level.inherited)
                   drawn == draw_button(index)
               IN  /\ drawn.fill = IF index = hovered_button THEN style.hover_color
                                   ELSE style.background_color
                   /\ drawn.border = style.border_color
                   /\ drawn.text = style.font_color

-----------------------------------------------------------------------------
(* Claims about the refusal of a path (specification SpecPath) *)

\* what the user sees of a load: the configuration returned, whether it
\* validates, and the lines written to std::cerr
Outcome(r) == [config |-> r.config, valid |-> validate(r.config), diag |-> r.diag]

\* a path inside an allowed root at which no file exists
MissingPath == CHOOSE p \in PathInputs : is_config_path_allowed(p) /\ ~exists(p)

\* C21: loading a path the path gate rejects ends as loading a path at which
\* no file exists: the same configuration without items, the same failure
\* of validation, and the same error output.
C21_RefusalLooksLikeMissingFile ==
    (pc = "validated" /\ ~path_allowed) =>
        [config |-> config, valid |-> valid, diag |-> diag]
            = Outcome(from_yaml(MissingPath, FileAt(MissingPath)))

\* the two outcomes differ in nothing but the error output
RefusalDiffersInOutputOnly ==
    (pc = "validated" /\ ~path_allowed) =>
        LET missing == Outcome(from_yaml(MissingPath, FileAt(MissingPath)))
        IN  config = missing.config /\ valid = missing.valid /\ ~valid

-----------------------------------------------------------------------------
(* Claims about line breaks in commands (specification SpecPolicy) *)

HasLineBreak(s) == \E i \in 1..Len(s) : s[i] \in {"\n", "\r"}

\* C22: every command that contains a newline or a carriage return is
\* reported by has_dangerous_patterns, and a configuration that carries it
\* on a leaf does not pass validate.
C22_LineBreakRejected ==
    (pc \in {"classified", "validated"} /\ HasLineBreak(command))
        => /\ pattern_hit
           /\ pc = "validated" => ~valid

-----------------------------------------------------------------------------
(* SpecCli: from_command_line and validate on every short --cli string *)

MaxCliLen == 6

CliAlphabet == {"a", "b", ":", "\\", ";"}

CliExamples ==
    { <<"a", ":", "b", ":", "l", "s">>, <<"a", ":", "l", "s">>, <<"a", ":", ":", "l", "s">>,
      <<" ", "a", ":", "l", "s", " ", ";", "\t", "b", ":", "l", "s", ";">>,
      <<"a", ":", "b", ":", "l", "s", ":", "-", "l">>,
      <<"a", "\\", ":", "b", ":", "l", "s">> }

InitCli ==
    /\ pc = "start"
    /\ cli_string \in (Str(MaxCliLen, CliAlphabet) \cup CliExamples) \ {<<>>}
    /\ filepath = <<>>
    /\ file = NoFile
    /\ path_allowed = FALSE
    /\ config = DefaultConfig
    /\ parse_attempted = FALSE
    /\ diag = <<>>
    /\ valid = FALSE
    /\ IdlePolicy
    /\ IdleMenu
    /\ IdleExec

NextCli == FromCommandLine \/ Validate

SpecCli == InitCli /\ [][NextCli]_vars

\* the positions of the ':' of an item that no backslash precedes
FieldBreaks(str) ==
    { i \in 1..Len(str) : str[i] = ":" /\ (i = 1 \/ str[i - 1] # "\\") }

\* the item cut at its first two field breaks: at most three fields, and
\* the fields joined by ':' are the item again
ThreeFields(str) ==
    LET breaks == FieldBreaks(str)
    IN  IF breaks = {} THEN <<str, <<>>, <<>>>>
        ELSE LET first == Min(breaks)
                 later == { i \in breaks : i > first }
             IN  IF later = {}
                 THEN <<SubSeq(str, 1, first - 1), SubFrom(str, first + 1), <<>>>>
                 ELSE LET second == Min(later)
                      IN  <<SubSeq(str, 1, first - 1), SubSeq(str, first + 1, second - 1),
                            SubFrom(str, second + 1)>>

\* the item a --cli item stands for: label, description, command, with the
\* label as description and the last field as command when one is left out
ItemOfFields(str) ==
    LET f == ThreeFields(str)
    IN  IF f[3] # <<>>
        THEN LeafItem(f[1], f[3], IF f[2] = <<>> THEN f[1] ELSE f[2])
        ELSE LeafItem(f[1], f[2], f[1])

\* the items of a --cli string, in order, those without a label left out
ItemsOfString(str) ==
    LET segments == SplitItems(str, <<>>)
        stripped == [k \in 1..Len(segments) |-> trim_blanks(segments[k])]
        named(s) == s # <<>> /\ ItemOfFields(s).label # <<>>
        kept == SelectSeq(stripped, named)
    IN  [k \in 1..Len(kept) |-> ItemOfFields(kept[k])]

\* C23: the items from_command_line returns are the items of the string
\* between the ';', each cut into at most three fields at the ':' that no
\* backslash precedes, with no text of an item lost or moved.
C23_CliFieldsKept == pc # "start" => config.items = ItemsOfString(cli_string)

\* the same for strings whose items have at most two field breaks
CliFieldsKeptUpToTwoBreaks ==
    (pc # "start" /\ \A k \in 1..Len(SplitItems(cli_string, <<>>)) :
                        Cardinality(FieldBreaks(trim_blanks(SplitItems(cli_string, <<>>)[k]))) <= 2)
        => config.items = ItemsOfString(cli_string)

-----------------------------------------------------------------------------
(* Claims about the navigation path (specification Spec) *)

\* the path holds the label of the branch item entered at every level
PathMatchesStack ==
    Open =>
        /\ Len(current_menu_path) = Len(menu_stack) - 1
        /\ \A k \in 1..Len(current_menu_path) :
              \E i \in 1..Len(menu_stack[k]) :
                 /\ menu_stack[k][i].label = current_menu_path[k]
                 /\ menu_stack[k][i].submenu = menu_stack[k + 1]

\* an execution records a leaf of the displayed level with the path
RecordsLeafWithPath ==
    dispatched' # dispatched =>
        \E i \in 1..Len(current_items) :
           /\ ~has_submenu(current_items[i])
           /\ dispatched' = Append(dispatched,
                                   [label |-> current_items[i].label,
                                    command |-> current_items[i].command,
                                    menu_path |-> current_menu_path])

\* C24: every leaf execution hands the tracker the label of the leaf and the
\* navigation path, and that path is always the labels of the branch items
\* entered to reach the displayed level: as long as the stack depth minus
\* one, and empty at the root.
C24_UsagePathFollowsStack == []PathMatchesStack /\ [][RecordsLeafWithPath]_vars

\* E was run two levels down, inside B and D
C24_Witness ==
    /\ Open
    /\ Len(menu_stack) = 3
    /\ current_menu_path = <<Lbl("B"), Lbl("D")>>
    /\ dispatched # <<>>
    /\ dispatched[Len(dispatched)].label = Lbl("E")
    /\ dispatched[Len(dispatched)].menu_path = <<Lbl("B"), Lbl("D")>>

-----------------------------------------------------------------------------
(* Claims about the entries of the navigation stack (specification Spec) *)

\* every entry has items, and every entry above the root is the submenu of
\* an item of the entry below it
StackIsChain ==
    Open =>
        \A k \in 1..Len(menu_stack) :
           /\ menu_stack[k] # <<>>
           /\ k > 1 => \E i \in 1..Len(menu_stack[k - 1]) :
                          menu_stack[k - 1][i].submenu = menu_stack[k]

\* the stack of an open menu grows only by the submenu of a branch item of
\* the displayed level
PushFromBranchOfTop ==
    (Open /\ Len(menu_stack') > Len(menu_stack)) =>
        \E i \in 1..Len(current_items) :
           /\ has_submenu(current_items[i])
           /\ menu_stack' = Append(menu_stack, current_items[i].submenu)

\* C25: a push happens only from a branch item of the level at the top of
\* the stack, so every stack entry above the root is the child sequence of
\* an item of the entry directly below it, and no stack entry is empty.
C25_StackEntriesChained == []StackIsChain /\ [][PushFromBranchOfTop]_vars

\* two pushes deep: root, the submenu of B, the submenu of D
C25_Witness ==
    /\ Open
    /\ Len(menu_stack) = 3
    /\ last_event \in {"click", "hotkey"}
    /\ menu_stack[1] = config.items
    /\ \E i \in 1..Len(menu_stack[2]) :
          /\ has_submenu(menu_stack[2][i])
          /\ menu_stack[2][i].submenu = menu_stack[3]

-----------------------------------------------------------------------------
(* Claims about which commands are run (specification Spec) *)

\* the tree with the command of every item that has children removed
RECURSIVE WithoutBranchCommands(_)
WithoutBranchCommands(items) ==
    [i \in 1..Len(items) |->
        IF has_submenu(items[i])
        THEN [items[i] EXCEPT !.command = <<>>,
                              !.submenu = WithoutBranchCommands(items[i].submenu)]
        ELSE items[i]]

\* validate does not look at the command of an item that has children
BranchCommandsNotValidated ==
    pc # "start" =>
        validate(config) = validate([config EXCEPT !.items = WithoutBranchCommands(@)])

\* a step that runs something runs one leaf of the displayed level, whose
\* command passes both checks, and starts no process for any other item
RunsAllowedLeaf ==
    (dispatched' # dispatched \/ spawned' # spawned) =>
        \E i \in 1..Len(current_items) :
           LET item == current_items[i]
           IN  /\ item \in TreeNodes(config.items)
               /\ ~has_submenu(item)
               /\ ~is_blacklisted(item.command)
               /\ ~has_dangerous_patterns(item.command)
               /\ dispatched' = Append(dispatched, [label |-> item.label,
                                                    command |-> item.command,
                                                    menu_path |-> current_menu_path])
               /\ \A k \in (Len(spawned) + 1)..Len(spawned') :
                     \/ spawned'[k].command_line = item.command
                     \/ spawned'[k].argv[1] = NotifySend

\* C26: every command the menu hands to process creation is the command of
\* a leaf that validate found neither name-blacklisted nor
\* pattern-blacklisted at load time; the command of an item with children
\* is not validated and is never run, whatever the input event.
C26_OnlyValidatedLeavesRun == []BranchCommandsNotValidated /\ [][RunsAllowedLeaf]_vars

\* C was run inside a branch item whose own command is blacklisted
C26_Witness ==
    /\ Open
    /\ \E node \in TreeNodes(config.items) :
          /\ has_submenu(node)
          /\ is_blacklisted(node.command)
          /\ node.submenu = current_items
    /\ dispatched # <<>>
    /\ spawned # <<>>
    /\ dispatched[Len(dispatched)].label = Lbl("C")
    /\ dispatched[Len(dispatched)].menu_path = <<Lbl("B")>>

-----------------------------------------------------------------------------
(* SpecSync: one call of SafeExecutor::execute, with its two pipes and its *)
(* child. The program the child becomes writes a script of blocks to       *)
(* stdout and stderr and exits; a write blocks while the pipe is full, a   *)
(* read blocks while the pipe is empty and a write end is open.            *)

PipeCapacity == 2       \* blocks a pipe holds
MaxWrites == 3          \* blocks the program writes

Scripts == Str(MaxWrites, {"out", "err"})

SyncStart(script) ==
    [NoSync EXCEPT !.parent = "called", !.program = script, !.script = script]

InitSync ==
    /\ pc = "start"
    /\ IdlePolicy
    /\ IdleLoad
    /\ IdleMenu
    /\ IdleAsync
    /\ IdleStartup
    /\ piped \in { SyncStart(script) : script \in Scripts }

\* pipe(stdout_pipe) == -1 || pipe(stderr_pipe) == -1: the second pipe is
\* not asked for when the first fails, and nothing is closed on failure
SyncPipes ==
    /\ piped.parent = "called"
    /\ \E made \in 0..2 :
          piped' = IF made = 2
                   THEN [piped EXCEPT !.parent = "piped",
                                      !.fds = {"out_r", "out_w", "err_r", "err_w"}]
                   ELSE [piped EXCEPT !.parent = "returned", !.exit_code = -1,
                                      !.fds = IF made = 1 THEN {"out_r", "out_w"} ELSE {}]
    /\ UNCHANGED <<pc, policyVars, loadVars, menuVars, detached, startup>>

\* fork(); on failure the four descriptors are closed; on success the
\* parent closes its write ends and the child keeps only the write ends,
\* as its stdout and stderr
SyncFork ==
    /\ piped.parent = "piped"
    /\ \E forked \in BOOLEAN :
          piped' = IF forked
                   THEN [piped EXCEPT !.parent = "reading_out",
                                      !.fds = {"out_r", "err_r"},
                                      !.child = "forked",
                                      !.child_fds = {"out_w", "err_w"}]
                   ELSE [piped EXCEPT !.parent = "returned", !.exit_code = -1,
                                      !.fds = {}]
    /\ UNCHANGED <<pc, policyVars, loadVars, menuVars, detached, startup>>

\* child: execve(command, argv, environ); _exit(127) when it returns
SyncChildExec ==
    /\ piped.child = "forked"
    /\ \E executed \in BOOLEAN :
          piped' = IF executed
                   THEN [piped EXCEPT !.child = "program"]
                   ELSE [piped EXCEPT !.child = "exited", !.child_status = 127,
                                      !.child_fds = {}]
    /\ UNCHANGED <<pc, policyVars, loadVars, menuVars, detached, startup>>

\* the program writes its next block, when the pipe has room for it
ProgramWrite ==
    /\ piped.child = "program"
    /\ piped.script # <<>>
    /\ IF Head(piped.script) = "out"
       THEN /\ piped.out_pipe < PipeCapacity
            /\ piped' = [piped EXCEPT !.out_pipe = @ + 1, !.script = Tail(@)]
       ELSE /\ piped.err_pipe < PipeCapacity
            /\ piped' = [piped EXCEPT !.err_pipe = @ + 1, !.script = Tail(@)]
    /\ UNCHANGED <<pc, policyVars, loadVars, menuVars, detached, startup>>

\* the program has written everything and exits; its descriptors close
ProgramDone ==
    /\ piped.child = "program"
    /\ piped.script = <<>>
    /\ \E status \in ExitCodes :
          piped' = [piped EXCEPT !.child = "exited", !.child_status = status,
                                 !.child_fds = {}]
    /\ UNCHANGED <<pc, policyVars, loadVars, menuVars, detached, startup>>

\* parent: the loop over read(stdout_pipe[0]) and close(stdout_pipe[0]);
\* read returns a block, or 0 once the pipe is empty and no write end is open
SyncReadStdout ==
    /\ piped.parent = "reading_out"
    /\ IF piped.out_pipe > 0
       THEN piped' = [piped EXCEPT !.out_pipe = @ - 1, !.stdout = @ + 1]
       ELSE /\ "out_w" \notin piped.child_fds
            /\ piped' = [piped EXCEPT !.parent = "reading_err", !.fds = @ \ {"out_r"}]
    /\ UNCHANGED <<pc, policyVars, loadVars, menuVars, detached, startup>>

\* parent: the loop over read(stderr_pipe[0]) and close(stderr_pipe[0])
SyncReadStderr ==
    /\ piped.parent = "reading_err"
    /\ IF piped.err_pipe > 0
       THEN piped' = [piped EXCEPT !.err_pipe = @ - 1, !.stderr = @ + 1]
       ELSE /\ "err_w" \notin piped.child_fds
            /\ piped' = [piped EXCEPT !.parent = "waiting", !.fds = @ \ {"err_r"}]
    /\ UNCHANGED <<pc, policyVars, loadVars, menuVars, detached, startup>>

\* parent: waitpid(pid, &status, 0) and the result
SyncReturn ==
    /\ piped.parent = "waiting"
    /\ piped.child = "exited"
    /\ piped' = [piped EXCEPT !.parent = "returned", !.exit_code = piped.child_status]
    /\ UNCHANGED <<pc, policyVars, loadVars, menuVars, detached, startup>>

NextSync ==
    \/ SyncPipes
    \/ SyncFork
    \/ SyncChildExec
    \/ ProgramWrite
    \/ ProgramDone
    \/ SyncReadStdout
    \/ SyncReadStderr
    \/ SyncReturn

SpecSync == InitSync /\ [][NextSync]_vars

\* every process takes its next step whenever it can
FairSpecSync == SpecSync /\ WF_vars(NextSync)

\* C27: the call returns for every amount and order of data the program
\* writes to stdout and stderr: parent and child never wait on each other
\* for ever.
C27_SyncCallReturns == <>(piped.parent = "returned")

\* C30: when the call has returned, on any path, the calling process holds
\* no descriptor of the pipes it created.
C30_NoDescriptorLeft == piped.parent = "returned" => piped.fds = {}

\* once the child exists, every path closes what was opened
NoDescriptorLeftAfterFork ==
    (piped.parent = "returned" /\ piped.child # "none") => piped.fds = {}

\* a program that writes no more than a pipe holds to stderr is always
\* waited for
SmallStderrReturns ==
    (Cardinality({ i \in 1..Len(piped.program) : piped.program[i] = "err" }) <= PipeCapacity)
        ~> (piped.parent = "returned")

-----------------------------------------------------------------------------
(* SpecStartup: two radux-menu processes going through main at about the  *)
(* same time, and the file /tmp/radux-menu.pid they share. Every access to *)
(* the file is one step: the open and read of kill_existing_instance, each *)
(* std::remove, the open and the write of write_pid_file.                  *)

Pids == {"p1", "p2"}
StalePid == "p0"        \* the pid of a process that no longer exists

Other(p) == CHOOSE q \in Pids : q # p

StartupStart(content, session_bus) ==
    [ pid_file |-> content, bus |-> session_bus,
      proc |-> [p \in Pids |-> [at |-> "main", old_pid |-> "none", holds |-> FALSE]] ]

InitStartup ==
    /\ pc = "start"
    /\ IdlePolicy
    /\ IdleLoad
    /\ IdleMenu
    /\ IdleAsync
    /\ IdleSync
    /\ startup \in { StartupStart(content, session_bus) :
                   content \in {"absent", StalePid},
                   session_bus \in BOOLEAN }

\* kill(pid, 0) == 0
Alive(q) == q \in Pids /\ startup.proc[q].at \notin {"exited", "killed"}

\* std::remove(PID_FILE): the path is gone, and a process that has the
\* file open keeps a file that no path leads to
remove_pid_file(s) ==
    [s EXCEPT !.pid_file = "absent",
              !.proc = [q \in Pids |-> [s.proc[q] EXCEPT !.holds = FALSE]]]

\* kill_existing_instance: std::ifstream pid_file(PID_FILE); pid_file >> old_pid
ReadPidFile(p) ==
    /\ startup.proc[p].at = "main"
    /\ startup' =
         IF startup.pid_file = "absent"
         THEN [startup EXCEPT !.proc[p].at = "write"]
         ELSE [startup EXCEPT !.proc[p].at = "opened",
                              !.proc[p].old_pid = IF startup.pid_file = "empty"
                                                  THEN "zero" ELSE startup.pid_file]
    /\ UNCHANGED <<pc, policyVars, loadVars, menuVars, detached, piped>>

\* kill_existing_instance: old_pid <= 0, kill(old_pid, 0), kill(old_pid, SIGTERM);
\* no handler is installed for SIGTERM, so the signalled process ends there
CheckOldPid(p) ==
    /\ startup.proc[p].at = "opened"
    /\ LET old == startup.proc[p].old_pid IN
       startup' =
         IF old = "zero" \/ ~Alive(old)
         THEN [remove_pid_file(startup) EXCEPT !.proc[p].at = "write"]
         ELSE [startup EXCEPT !.proc[p].at = "signalled",
                              !.proc[old].at = "killed"]
    /\ UNCHANGED <<pc, policyVars, loadVars, menuVars, detached, piped>>

\* kill_existing_instance: usleep, kill(old_pid, 0) != 0, std::remove(PID_FILE)
OldPidGone(p) ==
    /\ startup.proc[p].at = "signalled"
    /\ ~Alive(startup.proc[p].old_pid)
    /\ startup' = [remove_pid_file(startup) EXCEPT !.proc[p].at = "write"]
    /\ UNCHANGED <<pc, policyVars, loadVars, menuVars, detached, piped>>

\* write_pid_file: std::ofstream pid_file(PID_FILE) creates or empties the
\* file (/tmp is writable, so the open succeeds)
OpenPidFile(p) ==
    /\ startup.proc[p].at = "write"
    /\ startup' = [startup EXCEPT !.pid_file = "empty",
                                  !.proc[p].at = "writing",
                                  !.proc[p].holds = TRUE]
    /\ UNCHANGED <<pc, policyVars, loadVars, menuVars, detached, piped>>

\* write_pid_file: pid_file << getpid() << std::endl; pid_file.close()
WritePid(p) ==
    /\ startup.proc[p].at = "writing"
    /\ startup' = [startup EXCEPT !.pid_file = IF startup.proc[p].holds THEN p ELSE @,
                                  !.proc[p].at = "started",
                                  !.proc[p].holds = FALSE]
    /\ UNCHANGED <<pc, policyVars, loadVars, menuVars, detached, piped>>

\* main after write_pid_file: the returns for --help, a bad coordinate, no
\* configuration file and an invalid configuration; otherwise app.run, in
\* which a process that finds the application id owned on the session bus
\* activates the owner and returns
MainContinues(p) ==
    /\ startup.proc[p].at = "started"
    /\ \E returns \in BOOLEAN :
          startup' =
            IF returns \/ (startup.bus /\ startup.proc[Other(p)].at = "running")
            THEN [startup EXCEPT !.proc[p].at = "exited"]
            ELSE [startup EXCEPT !.proc[p].at = "running"]
    /\ UNCHANGED <<pc, policyVars, loadVars, menuVars, detached, piped>>

\* RadialApplication::on_shutdown: std::remove(PID_FILE), and app.run returns
on_shutdown(p) ==
    /\ startup.proc[p].at = "running"
    /\ startup' = [remove_pid_file(startup) EXCEPT !.proc[p].at = "exited"]
    /\ UNCHANGED <<pc, policyVars, loadVars, menuVars, detached, piped>>

NextStartup ==
    \E p \in Pids :
        \/ ReadPidFile(p)
        \/ CheckOldPid(p)
        \/ OldPidGone(p)
        \/ OpenPidFile(p)
        \/ WritePid(p)
        \/ MainContinues(p)
        \/ on_shutdown(p)

SpecStartup == InitStartup /\ [][NextStartup]_vars

\* kill_existing_instance and write_pid_file are behind the process
StartupDone(p) ==
    startup.proc[p].at \in {"started", "running", "exited", "killed"}

StillRunning(p) == startup.proc[p].at \in {"started", "running"}

\* C29: when both processes have completed kill_existing_instance and
\* write_pid_file, at most one of them is still running, and the pid file,
\* if it exists, holds the pid of that running process.
C29_SingleInstance ==
    (\A p \in Pids : StartupDone(p)) =>
        /\ ~(\A p \in Pids : StillRunning(p))
        /\ startup.pid_file # "absent" =>
              \E p \in Pids : StillRunning(p) /\ startup.pid_file = p

\* both processes run while the file names one of them
BothRunning ==
    /\ \A p \in Pids : startup.proc[p].at = "running"
    /\ startup.pid_file \in Pids

\* the file names a process that has ended
PidFileOutlivesProcess ==
    /\ \A p \in Pids : StartupDone(p)
    /\ startup.pid_file \in Pids
    /\ ~StillRunning(startup.pid_file)

\* the instance whose pid a process has read has ended before the process
\* writes its own
KilledBeforeWrite ==
    \A p \in Pids :
        (startup.proc[p].at \in {"write", "writing"} /\ startup.proc[p].old_pid \in Pids)
            => ~Alive(startup.proc[p].old_pid)

-----------------------------------------------------------------------------
(* Claims on the close transition (Spec, FairSpec) *)

Closing == Open /\ is_closing

\* a step that leaves the close transition and its menu as they are
KeepsClosing ==
    /\ dispatched' = dispatched
    /\ menu_stack' = menu_stack
    /\ is_closing'

\* C28: once a close transition has been started, by a leaf that was run, by
\* Escape at the root, by a click outside the menu or by the auto-close
\* timer, no later event runs a command, pushes or pops the stack or cancels
\* the close, and the window closes in the end.
C28_ClosingIsTerminal ==
    /\ [][Closing => KeepsClosing]_vars
    /\ Closing ~> (window = "closed")

\* the pointer, the wheel and the timer leave a close transition alone
PointerKeepsClosing ==
    [][(Closing /\ (OnMotion \/ OnScroll \/ OnAutoCloseTimeout)) => KeepsClosing]_vars

\* a close transition ends with the window closed or is cancelled
ClosesUnlessCancelled == Closing ~> (window = "closed" \/ ~is_closing)

\* the auto-close timer has started a close transition
ClosingByTimer ==
    /\ Closing
    /\ config.auto_close_milliseconds > 0
    /\ ~auto_close_timer
    /\ last_event = "none"

\* a submenu was opened while the menu was closing
ClosingCancelled ==
    /\ Open
    /\ ~is_closing
    /\ config.auto_close_milliseconds > 0
    /\ ~auto_close_timer
    /\ Len(menu_stack) = 2

=============================================================================
